---------------------------- MODULE Spec2Model ----------------------------
(***************************************************************************)
(* A model of todo-log: the log-entry editor of ui/app.rs (cursor,         *)
(* autocomplete, save), the key dispatch of main.rs, and the todo parser   *)
(* and toggle of models.rs.                                                *)
(*                                                                         *)
(* A Rust String is a sequence of characters; each character is a short    *)
(* string token.  "U+E9" stands for the two-byte character e-acute, so     *)
(* that byte offsets (str::len, str::rfind) and character offsets          *)
(* (chars().take, chars().skip, chars().count) differ as they do in Rust.  *)
(***************************************************************************)
EXTENDS Naturals, Integers, Sequences, FiniteSets, TLC

VARIABLES
    app,        \* the fields of struct App (ui/app.rs)
    run_app,    \* where main.rs run_app is: "looping", "returned_ok", "returned_err", "panicked"
    disk,       \* the log files of storage: the text of the file at each path
    zone,       \* the offset of the local time zone from UTC, in hours
    last,       \* history: the operation the last step performed and its storage outcome
    toggles,    \* history: the latest consecutive Todo::toggle calls on one todo (at most 2)
    moves       \* history: the latest consecutive move_cursor_up / move_cursor_down
                \* calls (at most 2), each with the cursor offset it started from

vars == <<app, run_app, disk, zone, last, toggles, moves>>

----------------------------------------------------------------------------
(* Bounds *)

\* longest content a key may extend (insert_char, accept_autocomplete)
MaxLen == 3
\* most lines of a generated log file
MaxLines == 2
MaxWords == 3

----------------------------------------------------------------------------
(* Characters and strings *)

\* char::len_utf8
Utf8Len(c) == IF c = "U+E9" THEN 2 ELSE 1

\* char::is_whitespace
is_whitespace(c) == c \in {" ", "\n", "\r"}

\* char::is_alphanumeric
is_alphanumeric(c) ==
    c \in {"a", "b", "c", "d", "e", "f", "h", "j", "l", "o", "p", "r", "t", "x", "y",
           "A", "X", "U+E9"}

\* char::to_lowercase, as str::to_lowercase applies it
LowerChar(c) == IF c = "A" THEN "a" ELSE IF c = "X" THEN "x" ELSE c

to_lowercase(s) == [i \in 1..Len(s) |-> LowerChar(s[i])]

Min(a, b) == IF a <= b THEN a ELSE b

\* s.chars().take(n).collect()
Take(s, n) == SubSeq(s, 1, Min(n, Len(s)))

\* s.chars().skip(n).collect()
Skip(s, n) == SubSeq(s, n + 1, Len(s))

\* str::len: the length in bytes
RECURSIVE ByteLen(_)
ByteLen(s) == IF s = <<>> THEN 0 ELSE Utf8Len(Head(s)) + ByteLen(Tail(s))

\* str::starts_with
starts_with(s, p) == Len(p) <= Len(s) /\ SubSeq(s, 1, Len(p)) = p

\* the byte index at which character i (1-based) of s starts
ByteIndex(s, i) == ByteLen(SubSeq(s, 1, i - 1))

\* s.rfind(|c| c.is_whitespace()).map(|i| i + 1).unwrap_or(0): a BYTE index
last_word_start(s) ==
    LET ws == {i \in 1..Len(s) : is_whitespace(s[i])}
    IN  IF ws = {} THEN 0
        ELSE ByteIndex(s, CHOOSE i \in ws : \A j \in ws : j <= i) + 1

\* s.split('\n').collect(): at least one piece, a trailing "\n" gives a last empty piece
RECURSIVE split_newline(_)
split_newline(s) ==
    LET nl == {i \in 1..Len(s) : s[i] = "\n"}
    IN  IF nl = {} THEN <<s>>
        ELSE LET i == CHOOSE k \in nl : \A j \in nl : k <= j
             IN  <<SubSeq(s, 1, i - 1)>> \o split_newline(SubSeq(s, i + 1, Len(s)))

\* the sum of the character counts, with nothing added for the newlines
RECURSIVE SumLensNoNewline(_, _)
SumLensNoNewline(lines, n) ==
    IF n = 0 THEN 0 ELSE Len(lines[n]) + SumLensNoNewline(lines, n - 1)

\* lines[..n].iter().map(|l| l.chars().count() + 1).sum()
RECURSIVE SumLens(_, _)
SumLens(lines, n) == IF n = 0 THEN 0 ELSE Len(lines[n]) + 1 + SumLens(lines, n - 1)

\* str::trim
RECURSIVE trim_start(_)
trim_start(s) == IF s # <<>> /\ is_whitespace(Head(s)) THEN trim_start(Tail(s)) ELSE s

RECURSIVE trim_end(_)
trim_end(s) ==
    IF s # <<>> /\ is_whitespace(s[Len(s)]) THEN trim_end(SubSeq(s, 1, Len(s) - 1)) ELSE s

trim(s) == trim_end(trim_start(s))

----------------------------------------------------------------------------
(* Known names: App.projects and App.people, loaded once by App::new *)

ProjectNames ==
    << <<"A", "b">>, <<"U+E9">>, <<"p", "r", "o", "j", "e", "c", "t", "-", "x">> >>
PeopleNames == << <<"a">> >>

\* the characters KeyCode::Char(c) delivers
TypedChars == {"a", "#", "@", " ", "U+E9"}

NoMessage == "None"

\* Vec filter keeping order: names whose lowercase starts with prefix
RECURSIVE MatchingNames(_, _)
MatchingNames(names, prefix) ==
    IF names = <<>> THEN <<>>
    ELSE (IF starts_with(to_lowercase(Head(names)), prefix) THEN <<Head(names)>> ELSE <<>>)
         \o MatchingNames(Tail(names), prefix)

----------------------------------------------------------------------------
(* App methods of ui/app.rs, as functions from App to App *)

go_to_screen(a, s) == [a EXCEPT !.previous_screen = a.screen, !.screen = s]

\* Local::now() of LogEntry::new: the hour the program runs in, counted from
\* 2024-01-00 00:00 UTC
LocalNow == 3 * 24

start_new_log(a) ==
    go_to_screen([a EXCEPT !.content = <<>>,
                           !.timestamp = LocalNow,
                           !.log_cursor_pos = 0,
                           !.autocomplete_suggestions = <<>>,
                           !.autocomplete_active = FALSE], "LogEntry")

\* update_autocomplete that keeps the selected index when it recomputes the list
update_autocomplete_keep_index(a) ==
    IF a.log_cursor_pos = 0 \/ a.content = <<>>
    THEN [a EXCEPT !.autocomplete_active = FALSE]
    ELSE LET before_cursor == Take(a.content, a.log_cursor_pos)
             current_word == Skip(before_cursor, last_word_start(before_cursor))
             prefix == to_lowercase(Tail(current_word))
         IN  IF starts_with(current_word, <<"#">>) /\ ByteLen(current_word) > 1
             THEN LET sug == MatchingNames(a.projects, prefix)
                  IN  [a EXCEPT !.autocomplete_suggestions = sug,
                                !.autocomplete_type = "Project",
                                !.autocomplete_active = (sug # <<>>)]
             ELSE IF starts_with(current_word, <<"@">>) /\ ByteLen(current_word) > 1
             THEN LET sug == MatchingNames(a.people, prefix)
                  IN  [a EXCEPT !.autocomplete_suggestions = sug,
                                !.autocomplete_type = "Person",
                                !.autocomplete_active = (sug # <<>>)]
             ELSE [a EXCEPT !.autocomplete_active = FALSE,
                            !.autocomplete_type = "None"]

update_autocomplete(a) ==
    IF a.log_cursor_pos = 0 \/ a.content = <<>>
    THEN [a EXCEPT !.autocomplete_active = FALSE]
    ELSE LET before_cursor == Take(a.content, a.log_cursor_pos)
             current_word == Skip(before_cursor, last_word_start(before_cursor))
             prefix == to_lowercase(Tail(current_word))
         IN  IF starts_with(current_word, <<"#">>) /\ ByteLen(current_word) > 1
             THEN LET sug == MatchingNames(a.projects, prefix)
                  IN  [a EXCEPT !.autocomplete_suggestions = sug,
                                !.autocomplete_type = "Project",
                                !.autocomplete_active = (sug # <<>>),
                                !.autocomplete_index = 0]
             ELSE IF starts_with(current_word, <<"@">>) /\ ByteLen(current_word) > 1
             THEN LET sug == MatchingNames(a.people, prefix)
                  IN  [a EXCEPT !.autocomplete_suggestions = sug,
                                !.autocomplete_type = "Person",
                                !.autocomplete_active = (sug # <<>>),
                                !.autocomplete_index = 0]
             ELSE [a EXCEPT !.autocomplete_active = FALSE,
                            !.autocomplete_type = "None"]

\* autocomplete_suggestions[autocomplete_index] panics when the index is out of range
accept_panics(a) ==
    /\ a.autocomplete_active
    /\ a.autocomplete_suggestions # <<>>
    /\ a.autocomplete_index >= Len(a.autocomplete_suggestions)

\* mutant of accept_autocomplete: the new word without its trailing space
accept_autocomplete_no_space(a) ==
    IF ~a.autocomplete_active \/ a.autocomplete_suggestions = <<>> THEN a
    ELSE IF a.autocomplete_type = "None" THEN a
    ELSE LET suggestion == a.autocomplete_suggestions[a.autocomplete_index + 1]
             before_cursor == Take(a.content, a.log_cursor_pos)
             lws == last_word_start(before_cursor)
             prefix == IF a.autocomplete_type = "Project" THEN "#" ELSE "@"
             before == Take(a.content, lws)
             after == Skip(a.content, a.log_cursor_pos)
             new_word == <<prefix>> \o suggestion
         IN  [a EXCEPT !.content = before \o new_word \o after,
                       !.log_cursor_pos = lws + ByteLen(new_word),
                       !.autocomplete_active = FALSE,
                       !.autocomplete_suggestions = <<>>]

accept_autocomplete(a) ==
    IF ~a.autocomplete_active \/ a.autocomplete_suggestions = <<>> THEN a
    ELSE IF a.autocomplete_type = "None" THEN a
    ELSE LET suggestion == a.autocomplete_suggestions[a.autocomplete_index + 1]
             before_cursor == Take(a.content, a.log_cursor_pos)
             lws == last_word_start(before_cursor)
             prefix == IF a.autocomplete_type = "Project" THEN "#" ELSE "@"
             before == Take(a.content, lws)
             after == Skip(a.content, a.log_cursor_pos)
             new_word == <<prefix>> \o suggestion \o <<" ">>
         IN  [a EXCEPT !.content = before \o new_word \o after,
                       !.log_cursor_pos = lws + ByteLen(new_word),
                       !.autocomplete_active = FALSE,
                       !.autocomplete_suggestions = <<>>]

\* insert_char without the call of update_autocomplete
insert_char_no_update(a, c) ==
    [a EXCEPT !.content = Take(a.content, a.log_cursor_pos) \o <<c>>
                          \o Skip(a.content, a.log_cursor_pos),
              !.log_cursor_pos = a.log_cursor_pos + 1]

insert_char(a, c) ==
    update_autocomplete(
        [a EXCEPT !.content = Take(a.content, a.log_cursor_pos) \o <<c>>
                              \o Skip(a.content, a.log_cursor_pos),
                  !.log_cursor_pos = a.log_cursor_pos + 1])

\* delete_char that removes the character at the cursor, not the one before it
delete_char_at_cursor(a) ==
    IF a.log_cursor_pos > 0
    THEN update_autocomplete(
            [a EXCEPT !.content = Take(a.content, a.log_cursor_pos)
                                  \o Skip(a.content, a.log_cursor_pos + 1),
                      !.log_cursor_pos = a.log_cursor_pos - 1])
    ELSE a

delete_char(a) ==
    IF a.log_cursor_pos > 0
    THEN update_autocomplete(
            [a EXCEPT !.content = Take(a.content, a.log_cursor_pos - 1)
                                  \o Skip(a.content, a.log_cursor_pos),
                      !.log_cursor_pos = a.log_cursor_pos - 1])
    ELSE a

move_cursor_left(a) ==
    IF a.log_cursor_pos > 0 THEN [a EXCEPT !.log_cursor_pos = a.log_cursor_pos - 1] ELSE a

move_cursor_right(a) ==
    IF a.log_cursor_pos < Len(a.content)
    THEN [a EXCEPT !.log_cursor_pos = a.log_cursor_pos + 1] ELSE a

\* move_cursor_up with the column kept as it is, not limited to the previous line
move_cursor_up_unclamped(a) ==
    LET lines == split_newline(Take(a.content, a.log_cursor_pos))
        current_line_idx == Len(lines) - 1
        current_col == Len(lines[current_line_idx + 1])
    IN  IF Len(lines) <= 1 THEN a
        ELSE [a EXCEPT !.log_cursor_pos = SumLens(lines, current_line_idx - 1) + current_col]

move_cursor_up(a) ==
    LET lines == split_newline(Take(a.content, a.log_cursor_pos))
        current_line_idx == Len(lines) - 1
        current_col == Len(lines[current_line_idx + 1])
        prev_line_len == Len(lines[current_line_idx])
        target_col == Min(current_col, prev_line_len)
    IN  IF Len(lines) <= 1 THEN a
        ELSE [a EXCEPT !.log_cursor_pos = SumLens(lines, current_line_idx - 1) + target_col]

\* move_cursor_down that goes to the end of the next line
move_cursor_down_to_line_end(a) ==
    LET all_lines == split_newline(a.content)
        lines_before == split_newline(Take(a.content, a.log_cursor_pos))
        current_line_idx == Len(lines_before) - 1
    IN  IF current_line_idx >= Len(all_lines) - 1 THEN a
        ELSE [a EXCEPT !.log_cursor_pos = SumLens(all_lines, current_line_idx + 1)
                                          + Len(all_lines[current_line_idx + 2])]

move_cursor_down(a) ==
    LET all_lines == split_newline(a.content)
        lines_before == split_newline(Take(a.content, a.log_cursor_pos))
        current_line_idx == Len(lines_before) - 1
        current_col == Len(lines_before[current_line_idx + 1])
        next_line_len == Len(all_lines[current_line_idx + 2])
        target_col == Min(current_col, next_line_len)
    IN  IF current_line_idx >= Len(all_lines) - 1 THEN a
        ELSE [a EXCEPT !.log_cursor_pos = SumLens(all_lines, current_line_idx + 1) + target_col]

clear_status(a) == [a EXCEPT !.status_message = NoMessage]

\* save_log when the content is blank: the early return of line 265
save_log_empty(a) == [a EXCEPT !.status_message = "Cannot save empty log entry"]

\* save_log after Storage::save_log_entry returned Ok
save_log_saved(a) == go_to_screen([a EXCEPT !.status_message = "Log saved"], "Menu")

\* mutant of save_log_is_empty: the test without trim()
save_log_is_empty_untrimmed(a) == a.content = <<>>

\* the test of save_log: self.current_log.content.trim().is_empty()
save_log_is_empty(a) == trim(a.content) = <<>>


----------------------------------------------------------------------------
(* The state after App::new, before run_app's first event *)

AppNew ==
    [ screen |-> "Menu",
      previous_screen |-> "None",
      running |-> TRUE,
      projects |-> ProjectNames,        \* the names of App.projects
      people |-> PeopleNames,           \* the names of App.people
      todos |-> <<>>,
      logs |-> <<>>,
      content |-> <<>>,                 \* current_log.content
      timestamp |-> LocalNow,           \* current_log.timestamp
      log_cursor_pos |-> 0,
      autocomplete_suggestions |-> <<>>,
      autocomplete_index |-> 0,
      autocomplete_active |-> FALSE,
      autocomplete_type |-> "None",
      file_browser_open |-> FALSE,
      todo_filter |-> [show_completed |-> FALSE, projects |-> <<>>, people |-> <<>>],
      todo_selected |-> 0,
      filtered_todos |-> <<>>,
      log_filter |-> [projects |-> <<>>, people |-> <<>>,
                      start_date |-> <<>>, end_date |-> <<>>],
      log_selected |-> 0,
      filtered_logs |-> <<>>,
      view_log_path |-> "None",         \* the path of Screen::ViewLog(path)
      todo_filter_panel |-> "None",
      todo_filter_project_selected |-> 0,
      todo_filter_people_selected |-> 0,
      log_filter_panel |-> "None",
      start_date_input |-> <<>>,
      end_date_input |-> <<>>,
      log_filter_project_selected |-> 0,
      log_filter_people_selected |-> 0,
      filtered_projects |-> <<>>,
      project_selected |-> 0,
      project_idx |-> 0,                \* the index of Screen::ProjectDetails / ProjectEdit
      project_details_logs |-> <<>>,
      project_details_log_selected |-> 0,
      project_edit_field |-> 0,
      status_message |-> NoMessage ]

Did(op, io, wrote) == [op |-> op, io |-> io, wrote |-> wrote]

Init ==
    /\ app = AppNew
    /\ run_app = "looping"
    /\ disk = <<>>
    /\ zone = 0
    /\ last = Did("new", "none", FALSE)
    /\ toggles = <<>>
    /\ moves = <<>>

----------------------------------------------------------------------------
(* main.rs: one action per key event of run_app.  Every event first calls  *)
(* app.clear_status() (line 65) and then the handler of the current screen *)

\* the history of vertical moves after a step that performs op
Moved(op) ==
    LET m == [op |-> op, from |-> app.log_cursor_pos]
    IN  IF op \notin {"move_cursor_up", "move_cursor_down"} THEN <<>>
        ELSE IF moves = <<>> THEN <<m>>
        ELSE <<moves[Len(moves)], m>>

\* a handler that calls no storage and returns Ok(()); the history of
\* vertical moves is kept only where record is set
HandledMove(op, a, record) ==
    /\ app' = a
    /\ last' = Did(op, "none", FALSE)
    /\ UNCHANGED <<run_app, disk, zone, toggles>>
    /\ moves' = IF record THEN Moved(op) ELSE <<>>

Handled(op, a) == HandledMove(op, a, FALSE)

OnMenu == run_app = "looping" /\ app.screen = "Menu"

\* handle_log_entry_input below the file-browser branch
OnLogEntry == run_app = "looping" /\ app.screen = "LogEntry" /\ ~app.file_browser_open

\* handle_menu_input, KeyCode::Char('1'): execute_menu_selection(0)
MenuNewLog ==
    /\ OnMenu
    /\ Handled("start_new_log", start_new_log(clear_status(app)))

\* handle_menu_input, KeyCode::Esc: app.quit(); the loop then returns Ok(())
MenuQuit ==
    /\ OnMenu
    /\ app' = [clear_status(app) EXCEPT !.running = FALSE]
    /\ run_app' = "returned_ok"
    /\ last' = Did("quit", "none", FALSE)
    /\ UNCHANGED <<disk, zone, toggles>>
    /\ moves' = <<>>

\* KeyCode::Char(c)
KeyChar ==
    /\ OnLogEntry
    /\ Len(app.content) < MaxLen
    /\ \E c \in TypedChars : Handled("insert_char", insert_char(clear_status(app), c))

\* Tab or Enter while autocomplete is active: accept_autocomplete, for a content
\* of at most n characters
AcceptWithin(n) ==
    /\ OnLogEntry
    /\ app.autocomplete_active
    /\ Len(app.content) <= n
    /\ app' = (IF accept_panics(app) THEN clear_status(app)
               ELSE accept_autocomplete(clear_status(app)))
    /\ run_app' = (IF accept_panics(app) THEN "panicked" ELSE run_app)
    /\ last' = Did("accept_autocomplete", "none", FALSE)
    /\ UNCHANGED <<disk, zone, toggles>>
    /\ moves' = <<>>

KeyAccept == AcceptWithin(MaxLen)

\* KeyCode::Enter while autocomplete is inactive: insert_char('\n')
KeyEnter ==
    /\ OnLogEntry
    /\ ~app.autocomplete_active
    /\ Len(app.content) < MaxLen
    /\ Handled("insert_char", insert_char(clear_status(app), "\n"))

KeyBackspace ==
    /\ OnLogEntry
    /\ Handled("delete_char", delete_char(clear_status(app)))

KeyLeft ==
    /\ OnLogEntry
    /\ Handled("move_cursor_left", move_cursor_left(clear_status(app)))

KeyRight ==
    /\ OnLogEntry
    /\ Handled("move_cursor_right", move_cursor_right(clear_status(app)))

\* KeyCode::Up: the autocomplete selection while active, else move_cursor_up
KeyUpMove(record) ==
    /\ OnLogEntry
    /\ IF app.autocomplete_active
       THEN Handled("autocomplete_up",
                [clear_status(app) EXCEPT !.autocomplete_index =
                    IF @ > 0 THEN @ - 1 ELSE @])
       ELSE HandledMove("move_cursor_up", move_cursor_up(clear_status(app)),
                        record)

KeyUp == KeyUpMove(FALSE)

\* KeyCode::Down: the autocomplete selection while active, else move_cursor_down
KeyDownMove(record) ==
    /\ OnLogEntry
    /\ IF app.autocomplete_active
       THEN Handled("autocomplete_down",
                [clear_status(app) EXCEPT !.autocomplete_index =
                    IF Len(app.autocomplete_suggestions) > 0
                       /\ @ < Len(app.autocomplete_suggestions) - 1
                    THEN @ + 1 ELSE @])
       ELSE HandledMove("move_cursor_down",
                        move_cursor_down(clear_status(app)), record)

KeyDown == KeyDownMove(FALSE)

KeyHome ==
    /\ OnLogEntry
    /\ Handled("home", [clear_status(app) EXCEPT !.log_cursor_pos = 0])

KeyEnd ==
    /\ OnLogEntry
    /\ Handled("end", [clear_status(app) EXCEPT !.log_cursor_pos = Len(app.content)])

\* KeyCode::Esc: closes the autocomplete popup while active, else back to the menu
KeyEsc ==
    /\ OnLogEntry
    /\ IF app.autocomplete_active
       THEN Handled("autocomplete_esc",
                [clear_status(app) EXCEPT !.autocomplete_active = FALSE])
       ELSE Handled("go_to_screen", go_to_screen(clear_status(app), "Menu"))

\* Ctrl+A: open_file_browser
KeyCtrlA ==
    /\ OnLogEntry
    /\ Handled("open_file_browser", [clear_status(app) EXCEPT !.file_browser_open = TRUE])

\* the file-browser branch of handle_log_entry_input: Esc closes it
FileBrowserClose ==
    /\ run_app = "looping" /\ app.screen = "LogEntry" /\ app.file_browser_open
    /\ Handled("close_file_browser", [clear_status(app) EXCEPT !.file_browser_open = FALSE])

\* a key no arm of handle_log_entry_input acts on (Tab without a popup, a
\* function key, a file-browser key that only moves its selection)
KeyOther ==
    /\ run_app = "looping" /\ app.screen = "LogEntry"
    /\ Handled("none", clear_status(app))

\* Ctrl+S: app.save_log()?  Storage::save_log_entry may fail (create_dir_all,
\* fs::write); the ? of line 193 and the ? of line 69 carry the error out of run_app
KeyCtrlS ==
    /\ OnLogEntry
    /\ UNCHANGED <<disk, zone, toggles>>
    /\ moves' = <<>>
    /\ IF save_log_is_empty(app)
       THEN /\ app' = save_log_empty(clear_status(app))
            /\ last' = Did("save_log", "none", FALSE)
            /\ run_app' = run_app
       ELSE \E io_ok \in BOOLEAN :
              IF io_ok
              THEN /\ app' = save_log_saved(clear_status(app))
                   /\ last' = Did("save_log", "ok", TRUE)
                   /\ run_app' = run_app
              ELSE /\ app' = clear_status(app)
                   /\ last' = Did("save_log", "err", FALSE)
                   /\ run_app' = "returned_err"

Next ==
    \/ MenuNewLog
    \/ MenuQuit
    \/ KeyChar
    \/ KeyAccept
    \/ KeyEnter
    \/ KeyBackspace
    \/ KeyLeft
    \/ KeyRight
    \/ KeyUp
    \/ KeyDown
    \/ KeyHome
    \/ KeyEnd
    \/ KeyEsc
    \/ KeyCtrlA
    \/ FileBrowserClose
    \/ KeyOther
    \/ KeyCtrlS

Spec == Init /\ [][Next]_vars

\* a session whose people.toml holds two names with a common beginning, so that a
\* suggestion list can have a second element to select
SelectPeople == << <<"a">>, <<"a", "a">> >>

InitSelect ==
    /\ app = [AppNew EXCEPT !.people = SelectPeople]
    /\ run_app = "looping"
    /\ disk = <<>>
    /\ zone = 0
    /\ last = Did("new", "none", FALSE)
    /\ toggles = <<>>
    /\ moves = <<>>

\* the keys of the editor that change the text, the cursor or the selection
NextSelect ==
    \/ MenuNewLog
    \/ KeyChar
    \/ KeyAccept
    \/ KeyBackspace
    \/ KeyLeft
    \/ KeyRight
    \/ KeyUp
    \/ KeyDown
    \/ KeyEsc

SpecSelect == InitSelect /\ [][NextSelect]_vars

----------------------------------------------------------------------------
(* The editor driven by a user who types one of a few given texts from the  *)
(* start, and who may at any point move the cursor or accept a suggestion. *)
(* The handlers are those of Spec; only the typed characters are drawn from *)
(* the texts instead of TypedChars, and nothing is deleted.                 *)

\* "hello #pr"
ScriptHello == <<"h", "e", "l", "l", "o", " ", "#", "p", "r">>

\* e-acute, space, "#a"
ScriptAccent == <<"U+E9", " ", "#", "a">>

\* "abcdef\nxy\nabc"
ScriptLines ==
    <<"a", "b", "c", "d", "e", "f", "\n", "x", "y", "\n", "a", "b", "c">>

Scripts == {ScriptHello, ScriptAccent, ScriptLines}

\* KeyCode::Char(c) or, for "\n", KeyCode::Enter (which inserts only while no
\* popup is active): the next character of a text whose start is the content
KeyScript ==
    /\ OnLogEntry
    /\ app.log_cursor_pos = Len(app.content)
    /\ \E s \in Scripts :
         /\ Len(app.content) < Len(s)
         /\ Take(s, Len(app.content)) = app.content
         /\ s[Len(app.content) + 1] = "\n" => ~app.autocomplete_active
         /\ Handled("insert_char", insert_char(clear_status(app), s[Len(app.content) + 1]))

\* accept_autocomplete while the content is no longer than the longest text
KeyAcceptScript ==
    \E s \in Scripts :
        /\ \A t \in Scripts : Len(t) <= Len(s)
        /\ AcceptWithin(Len(s))

\* the vertical keys with the history of the moves kept
KeyUpScript == KeyUpMove(TRUE)

KeyDownScript == KeyDownMove(TRUE)

NextScript ==
    \/ MenuNewLog
    \/ KeyScript
    \/ KeyAcceptScript
    \/ KeyLeft
    \/ KeyUpScript
    \/ KeyDownScript
    \/ KeyRight
    \/ KeyHome
    \/ KeyEnd
    \/ KeyEsc

SpecScript == Init /\ [][NextScript]_vars

----------------------------------------------------------------------------
(* What section 4.4 of the specification prescribes, in character offsets:  *)
(* used only to state the claims about the editor                           *)

\* the number of characters up to and including the last whitespace of s
CharWordStart(s) ==
    LET ws == {i \in 1..Len(s) : is_whitespace(s[i])}
    IN  IF ws = {} THEN 0 ELSE CHOOSE i \in ws : \A j \in ws : j <= i

\* the word ending at the cursor
CurrentWord(content, pos) ==
    LET before_cursor == Take(content, pos)
    IN  Skip(before_cursor, CharWordStart(before_cursor))

AutocompleteRule(content, pos) ==
    LET w == CurrentWord(content, pos)
    IN  IF starts_with(w, <<"#">>) /\ Len(w) > 1
        THEN LET sug == MatchingNames(ProjectNames, to_lowercase(Tail(w)))
             IN  [active |-> sug # <<>>, suggestions |-> sug, kind |-> "Project"]
        ELSE IF starts_with(w, <<"@">>) /\ Len(w) > 1
        THEN LET sug == MatchingNames(PeopleNames, to_lowercase(Tail(w)))
             IN  [active |-> sug # <<>>, suggestions |-> sug, kind |-> "Person"]
        ELSE [active |-> FALSE, suggestions |-> <<>>, kind |-> "None"]

AutocompleteState(a) ==
    [active |-> a.autocomplete_active,
     suggestions |-> a.autocomplete_suggestions,
     kind |-> a.autocomplete_type]

----------------------------------------------------------------------------
(* Claims about the editor, checked under Spec *)

\* C1: after any sequence of editor operations the cursor offset log_cursor_pos
\* is within [0, number of characters of the content]
C1_CursorWithinContent ==
    app.log_cursor_pos \in 0..Len(app.content)

\* C7: when a storage read or write fails during a user action, the failure is
\* shown as a status message, the event loop keeps running on the same screen and
\* the buffer (content and cursor) is unchanged
C7_IoFailureIsShownAsStatus ==
    [][last'.io = "err" =>
        /\ run_app' = "looping"
        /\ app'.screen = app.screen
        /\ app'.status_message # NoMessage
        /\ app'.content = app.content
        /\ app'.log_cursor_pos = app.log_cursor_pos]_vars

\* C8: save_log on an entry whose content is empty or only whitespace writes no
\* file, sets a status message, returns without error and leaves the screen, the
\* content and the cursor unchanged
C8_SaveEmptyRejected ==
    [][(OnLogEntry /\ last'.op = "save_log" /\ trim(app.content) = <<>>) =>
        /\ ~last'.wrote
        /\ last'.io = "none"
        /\ run_app' = "looping"
        /\ app'.status_message \notin {NoMessage, "Log saved"}
        /\ app'.screen = "LogEntry"
        /\ app'.content = app.content
        /\ app'.log_cursor_pos = app.log_cursor_pos]_vars

\* C8 witness: save_log has just rejected a content of whitespace only
C8_Witness ==
    /\ last.op = "save_log"
    /\ app.content # <<>>
    /\ trim(app.content) = <<>>
    /\ app.status_message = "Cannot save empty log entry"
    /\ app.screen = "LogEntry"

\* C9: between key events on the log-entry screen the autocomplete state (active
\* flag, suggestion list, kind) equals what the recomputation rule yields from the
\* current content, the cursor offset and the known names; stated here as what the
\* claim draws from it: autocomplete is active only if the rule yields an active
\* state, and then with the rule's suggestions and kind
C9_AutocompleteIsDerived ==
    (run_app = "looping" /\ app.screen = "LogEntry" /\ app.autocomplete_active) =>
        AutocompleteState(app) = AutocompleteRule(app.content, app.log_cursor_pos)

\* C10: accepting a suggestion replaces exactly the span from the start of the
\* current word to the cursor with prefix character + chosen name + one space,
\* leaves the text before the word and after the cursor unchanged, puts the cursor
\* at the character offset just after the inserted space and deactivates
\* autocomplete
C10_AcceptReplacesCurrentWord ==
    [][(OnLogEntry /\ last'.op = "accept_autocomplete" /\ run_app' = "looping"
        /\ app.autocomplete_type # "None"
        /\ app.log_cursor_pos <= Len(app.content)) =>
        LET word_start == CharWordStart(Take(app.content, app.log_cursor_pos))
            name == app.autocomplete_suggestions[app.autocomplete_index + 1]
            prefix == IF app.autocomplete_type = "Project" THEN "#" ELSE "@"
        IN  /\ app'.content = Take(app.content, word_start) \o <<prefix>> \o name
                                \o <<" ">> \o Skip(app.content, app.log_cursor_pos)
            /\ app'.log_cursor_pos = word_start + Len(name) + 2
            /\ ~app'.autocomplete_active]_vars

\* the last key event ran insert_char or delete_char on the log-entry screen
AfterEdit ==
    /\ run_app = "looping"
    /\ app.screen = "LogEntry"
    /\ last.op \in {"insert_char", "delete_char"}

\* C13: after an insert_char or delete_char that leaves a current word that does
\* not start with "#" or "@" with length > 1 (an empty buffer and a cursor at
\* offset 0 included), autocomplete is inactive and the suggestion list is empty
C13_OtherWordClearsSuggestions ==
    LET w == CurrentWord(app.content, app.log_cursor_pos)
    IN  (AfterEdit /\ ~((starts_with(w, <<"#">>) \/ starts_with(w, <<"@">>)) /\ Len(w) > 1)) =>
            /\ ~app.autocomplete_active
            /\ app.autocomplete_suggestions = <<>>

\* the autocomplete fields of App
AutocompleteFields(a) ==
    <<a.autocomplete_active, a.autocomplete_suggestions,
      a.autocomplete_index, a.autocomplete_type>>

\* C21: delete_char at cursor offset 0 leaves the content, the cursor and the
\* autocomplete state unchanged; at an offset k > 0 within the content it removes
\* exactly the character at index k-1 (0-based), keeps the others in order and sets
\* the cursor to k-1
C21_DeleteChar ==
    [][last'.op = "delete_char" =>
        LET s == app.content
            k == app.log_cursor_pos
            t == app'.content
        IN  /\ k = 0 => /\ t = s
                        /\ app'.log_cursor_pos = 0
                        /\ AutocompleteFields(app') = AutocompleteFields(app)
            /\ (k > 0 /\ k <= Len(s)) =>
                  /\ Len(t) = Len(s) - 1
                  /\ \A i \in 1..Len(t) : t[i] = (IF i < k THEN s[i] ELSE s[i + 1])
                  /\ app'.log_cursor_pos = k - 1]_vars

\* delete_char has removed a character from inside the content: the cursor is after
\* a first character and before a last one
C21_Witness ==
    /\ last.op = "delete_char"
    /\ app.log_cursor_pos >= 1
    /\ app.log_cursor_pos < Len(app.content)

\* C22: insert_char(c) with the cursor at character offset k yields the first k
\* characters of the old content, then c, then the rest; the cursor and the character
\* count grow by exactly 1; the autocomplete state is the one update_autocomplete
\* computes for the new content and cursor
C22_InsertChar ==
    [][last'.op = "insert_char" =>
        LET s == app.content
            k == app.log_cursor_pos
            t == app'.content
        IN  /\ Len(t) = Len(s) + 1
            /\ app'.log_cursor_pos = k + 1
            /\ k <= Len(s) =>
                  /\ t[k + 1] \in TypedChars \cup {"\n"}
                  /\ \A i \in 1..Len(s) : s[i] = (IF i <= k THEN t[i] ELSE t[i + 1])
            /\ AutocompleteFields(app') =
                  AutocompleteFields(update_autocomplete(
                      [app EXCEPT !.content = t, !.log_cursor_pos = k + 1]))]_vars

\* a multi-byte character has been inserted between two characters, and the insert
\* made the current word a tag prefix with suggestions
C22_Witness ==
    /\ last.op = "insert_char"
    /\ app.log_cursor_pos >= 2
    /\ app.log_cursor_pos < Len(app.content)
    /\ app.content[app.log_cursor_pos] = "U+E9"
    /\ app.autocomplete_active

\* C27: whenever autocomplete is active the suggestion list is non-empty, the
\* selected index is less than the number of suggestions and the kind is Project or
\* Person, so accept_autocomplete never indexes the list out of range
C27_ActiveSelectionInRange ==
    /\ app.autocomplete_active =>
          /\ app.autocomplete_suggestions # <<>>
          /\ app.autocomplete_index < Len(app.autocomplete_suggestions)
          /\ app.autocomplete_type \in {"Project", "Person"}
    /\ ~accept_panics(app)
    /\ run_app # "panicked"

\* the second of two suggestions has been selected with Down
C27_Witness ==
    /\ app.autocomplete_active
    /\ last.op = "autocomplete_down"
    /\ Len(app.autocomplete_suggestions) = 2
    /\ app.autocomplete_index = 1

\* the second suggestion has been accepted
C27_WitnessAccepted ==
    /\ last.op = "accept_autocomplete"
    /\ app.content = <<"@", "a", "a", " ">>

----------------------------------------------------------------------------
(* Claims about the editor, checked under SpecScript *)

\* C12: after every insert_char or delete_char, if the current word (from the
\* nearest whitespace before the cursor, or the start, up to the cursor) starts
\* with "#" and is longer than one character, the suggestions are exactly the
\* known project names, in known order, that start case-insensitively with the
\* text after "#", autocomplete is active iff that list is non-empty, the kind is
\* Project and the selected index is 0; likewise for "@" and the known people;
\* also when multi-byte characters precede the current word
C12_SuggestionsFollowCurrentWord ==
    LET w == CurrentWord(app.content, app.log_cursor_pos)
        tagged == (starts_with(w, <<"#">>) \/ starts_with(w, <<"@">>)) /\ Len(w) > 1
        names == IF starts_with(w, <<"#">>) THEN ProjectNames ELSE PeopleNames
        sug == MatchingNames(names, to_lowercase(Tail(w)))
    IN  (AfterEdit /\ tagged) =>
            /\ app.autocomplete_suggestions = sug
            /\ app.autocomplete_active = (sug # <<>>)
            /\ app.autocomplete_type = (IF starts_with(w, <<"#">>) THEN "Project" ELSE "Person")
            /\ app.autocomplete_index = 0

\* "hello #project-x "
HelloAccepted ==
    <<"h", "e", "l", "l", "o", " ", "#", "p", "r", "o", "j", "e", "c", "t", "-", "x", " ">>

\* accept_autocomplete is about to run on "hello #pr" with the cursor at the end and
\* the suggestion "project-x" selected
AcceptingHello ==
    /\ OnLogEntry
    /\ last'.op = "accept_autocomplete"
    /\ app.content = ScriptHello
    /\ app.log_cursor_pos = Len(ScriptHello)
    /\ app.autocomplete_active
    /\ app.autocomplete_index < Len(app.autocomplete_suggestions)
    /\ app.autocomplete_suggestions[app.autocomplete_index + 1] = ProjectNames[3]

\* C11 as stated: with content "hello #pr", the cursor at the end and the known
\* project "project-x", accepting the suggestion "project-x" yields the content
\* "hello #project-x " with the cursor at offset 19
C11_AcceptHelloCursor19 ==
    [][AcceptingHello =>
        /\ app'.content = HelloAccepted
        /\ app'.log_cursor_pos = 19]_vars

\* C11 amended: with content "hello #pr", the cursor at the end and the known
\* project "project-x", accepting the suggestion "project-x" yields the content
\* "hello #project-x " with the cursor at offset 17, just after the inserted space
C11_AcceptHelloCursor17 ==
    [][AcceptingHello =>
        /\ app'.content = HelloAccepted
        /\ app'.log_cursor_pos = 17
        /\ app'.log_cursor_pos = Len(app'.content)]_vars

\* C11 witness: the suggestion has been accepted and the content is
\* "hello #project-x "
C11_Witness ==
    /\ last.op = "accept_autocomplete"
    /\ app.content = HelloAccepted
    /\ app.log_cursor_pos = Len(HelloAccepted)
    /\ ~app.autocomplete_active

----------------------------------------------------------------------------
(* Claims about vertical cursor movement, checked under SpecScript.  Lines  *)
(* are numbered from 0; the cursor is at the offset log_cursor_pos counted  *)
(* in characters.                                                           *)

\* the offsets of the newlines among the first p characters of s
Newlines(s, p) == {i \in 1..Min(p, Len(s)) : s[i] = "\n"}

LineCount(s) == Cardinality(Newlines(s, Len(s))) + 1

\* the line that offset p is on, and the offset at which line k starts
LineOfOffset(s, p) == Cardinality(Newlines(s, p))

StartOfLine(s, k) ==
    IF k = 0 THEN 0
    ELSE CHOOSE i \in Newlines(s, Len(s)) : Cardinality(Newlines(s, i)) = k

LengthOfLine(s, k) ==
    (IF k + 1 < LineCount(s) THEN StartOfLine(s, k + 1) - 1 ELSE Len(s))
        - StartOfLine(s, k)

ColumnOfOffset(s, p) == Min(p, Len(s)) - StartOfLine(s, LineOfOffset(s, p))

\* the sum over the lines 0 .. k-1 of their character count plus one
RECURSIVE CharsOfLinesBefore(_, _)
CharsOfLinesBefore(s, k) ==
    IF k = 0 THEN 0 ELSE LengthOfLine(s, k - 1) + 1 + CharsOfLinesBefore(s, k - 1)

LastMove == moves[Len(moves)]

\* C18: move_cursor_down leaves the content unchanged; on the last line it leaves
\* the cursor where it is, otherwise the new offset is the sum over the lines up to
\* and including the current one of (character count + 1), plus min(current column,
\* length of the next line); from offset 6 of "abcdef\nxy" it lands at offset 9
C18_MoveCursorDown ==
    [][last'.op = "move_cursor_down" =>
        LET s == app.content
            p == app.log_cursor_pos
            k == LineOfOffset(s, p)
        IN  /\ app'.content = s
            /\ app'.log_cursor_pos =
                 (IF k = LineCount(s) - 1 THEN p
                  ELSE CharsOfLinesBefore(s, k + 1)
                       + Min(ColumnOfOffset(s, p), LengthOfLine(s, k + 1)))
            /\ (s = <<"a","b","c","d","e","f","\n","x","y">> /\ p = 6)
                   => app'.log_cursor_pos = 9]_vars

\* move_cursor_down has moved the cursor from offset 6 of "abcdef\nxy" to offset 9
C18_Witness ==
    /\ last.op = "move_cursor_down"
    /\ moves # <<>> /\ LastMove.op = "move_cursor_down" /\ LastMove.from = 6
    /\ app.content = <<"a","b","c","d","e","f","\n","x","y">>
    /\ app.log_cursor_pos = 9

\* C19: move_cursor_up leaves the content unchanged; on the first line it leaves the
\* cursor where it is, otherwise the new offset is the sum over the lines strictly
\* before the previous one of (character count + 1), plus min(current column, length
\* of the previous line): the line directly above, at a column not greater than the
\* current one
C19_MoveCursorUp ==
    [][last'.op = "move_cursor_up" =>
        LET s == app.content
            p == app.log_cursor_pos
            k == LineOfOffset(s, p)
            q == app'.log_cursor_pos
        IN  /\ app'.content = s
            /\ IF k = 0 THEN q = p
               ELSE /\ q = CharsOfLinesBefore(s, k - 1)
                           + Min(ColumnOfOffset(s, p), LengthOfLine(s, k - 1))
                    /\ LineOfOffset(s, q) = k - 1
                    /\ ColumnOfOffset(s, q) <= ColumnOfOffset(s, p)]_vars

\* move_cursor_up has moved the cursor from column 3 of the third line to the end of
\* a second line of 2 characters
C19_Witness ==
    /\ last.op = "move_cursor_up"
    /\ moves # <<>> /\ LastMove.op = "move_cursor_up"
    /\ LineOfOffset(app.content, LastMove.from) = 2
    /\ ColumnOfOffset(app.content, LastMove.from) = 3
    /\ LengthOfLine(app.content, 1) = 2
    /\ LineOfOffset(app.content, app.log_cursor_pos) = 1
    /\ ColumnOfOffset(app.content, app.log_cursor_pos) = 2

\* C20: after move_cursor_down from column c of a line onto a shorter line of length
\* L < c the cursor is at column L of that line, and a following move_cursor_up, or a
\* following move_cursor_down onto a line of length >= c, puts it at column L, not c
C20_NoRememberedColumn ==
    (Len(moves) = 2 /\ moves[1].op = "move_cursor_down") =>
        LET s == app.content
            k == LineOfOffset(s, moves[1].from)
            c == ColumnOfOffset(s, moves[1].from)
            now == app.log_cursor_pos
        IN  (k + 1 < LineCount(s) /\ LengthOfLine(s, k + 1) < c) =>
              /\ LineOfOffset(s, moves[2].from) = k + 1
              /\ ColumnOfOffset(s, moves[2].from) = LengthOfLine(s, k + 1)
              /\ moves[2].op = "move_cursor_up" =>
                   /\ LineOfOffset(s, now) = k
                   /\ ColumnOfOffset(s, now) = LengthOfLine(s, k + 1)
              /\ (/\ moves[2].op = "move_cursor_down"
                  /\ k + 2 < LineCount(s)
                  /\ LengthOfLine(s, k + 2) >= c) =>
                   /\ LineOfOffset(s, now) = k + 2
                   /\ ColumnOfOffset(s, now) = LengthOfLine(s, k + 1)

\* down from column 6 of "abcdef" onto "xy" and up again: the cursor is at column 2
C20_Witness ==
    /\ Len(moves) = 2
    /\ moves[1] = [op |-> "move_cursor_down", from |-> 6]
    /\ moves[2] = [op |-> "move_cursor_up", from |-> 9]
    /\ app.content = <<"a","b","c","d","e","f","\n","x","y">>
    /\ app.log_cursor_pos = 2

\* down from column 3 of "abcdef" onto "xy" and down again onto "abc"
C20_WitnessDown ==
    /\ Len(moves) = 2
    /\ moves[1] = [op |-> "move_cursor_down", from |-> 3]
    /\ moves[2] = [op |-> "move_cursor_down", from |-> 9]
    /\ app.content = ScriptLines
    /\ app.log_cursor_pos = 12

----------------------------------------------------------------------------
(* models.rs: LogEntry::parse and Todo::toggle *)

LF == <<"\n">>
CRLF == <<"\r", "\n">>

\* a log file outside a timestamped directory: Todo.log_path
LogPath == "log.txt"

\* the log files of two timestamped directories
PathEve == "log-2024/2024-01-01_23-00-00/log.txt"
PathMorn == "log-2024/2024-01-02_00-00-00/log.txt"
PathNoon == "log-2024/2024-01-02_12-00-00/log.txt"

\* DateTime::parse_from_str(parent directory name + " +0000", "%Y-%m-%d_%H-%M-%S %z")
\* on the paths of this model: the day of January 2024 and the hour, or an error
dir_datetime(file_path) ==
    IF file_path = PathEve THEN [ok |-> TRUE, day |-> 1, hour |-> 23]
    ELSE IF file_path = PathMorn THEN [ok |-> TRUE, day |-> 2, hour |-> 0]
    ELSE IF file_path = PathNoon THEN [ok |-> TRUE, day |-> 2, hour |-> 12]
    ELSE [ok |-> FALSE, day |-> 0, hour |-> 0]

\* lines 92-102: the timestamp of an entry, an instant in hours since
\* 2024-01-00 00:00 UTC; the directory name is read as a UTC time
parse_timestamp(file_path) ==
    LET dt == dir_datetime(file_path)
    IN  IF dt.ok THEN dt.day * 24 + dt.hour ELSE LocalNow

\* DateTime<Local>::date_naive: the day, in the local zone off hours from UTC
date_naive(timestamp, off) == (timestamp + off) \div 24

AllButLast(q) == SubSeq(q, 1, Len(q) - 1)

\* str::lines: split at "\n", no last empty piece, and a "\r" before the "\n" is
\* dropped with it
lines(s) ==
    LET p == split_newline(s)
        q == IF p[Len(p)] = <<>> THEN AllButLast(p) ELSE p
    IN  [i \in 1..Len(q) |->
            IF i < Len(p) /\ q[i] # <<>> /\ q[i][Len(q[i])] = "\r"
            THEN AllButLast(q[i]) ELSE q[i]]

\* [String]::join(sep)
RECURSIVE join(_, _)
join(ls, sep) ==
    IF ls = <<>> THEN <<>>
    ELSE IF Len(ls) = 1 THEN ls[1]
    ELSE ls[1] \o sep \o join(Tail(ls), sep)

\* str::replacen(from, to, 1)
RECURSIVE replacen1(_, _, _)
replacen1(s, from, to) ==
    IF Len(s) < Len(from) THEN s
    ELSE IF starts_with(s, from) THEN to \o Skip(s, Len(from))
    ELSE <<Head(s)>> \o replacen1(Tail(s), from, to)

\* str::replace(from, to): every non-overlapping match, left to right
RECURSIVE replace(_, _, _)
replace(s, from, to) ==
    IF Len(s) < Len(from) THEN s
    ELSE IF starts_with(s, from) THEN to \o replace(Skip(s, Len(from)), from, to)
    ELSE <<Head(s)>> \o replace(Tail(s), from, to)

\* str::split_whitespace
RECURSIVE split_whitespace(_)
split_whitespace(s) ==
    LET t == trim_start(s)
        ws == {i \in 1..Len(t) : is_whitespace(t[i])}
    IN  IF t = <<>> THEN <<>>
        ELSE IF ws = {} THEN <<t>>
        ELSE LET i == CHOOSE k \in ws : \A j \in ws : k <= j
             IN  <<SubSeq(t, 1, i - 1)>> \o split_whitespace(SubSeq(t, i, Len(t)))

\* the closure of lines 107 and 117: |c| !c.is_alphanumeric() && c != '-' && c != '_'
not_tag_char(c) == ~is_alphanumeric(c) /\ c # "-" /\ c # "_"

\* str::trim_start_matches(not_tag_char): nothing is trimmed at the end
RECURSIVE trim_start_matches(_)
trim_start_matches(s) ==
    IF s # <<>> /\ not_tag_char(Head(s)) THEN trim_start_matches(Tail(s)) ELSE s

\* str::trim_matches(not_tag_char)
RECURSIVE trim_matches(_)
trim_matches(s) ==
    IF s # <<>> /\ not_tag_char(Head(s)) THEN trim_matches(Tail(s))
    ELSE IF s # <<>> /\ not_tag_char(s[Len(s)]) THEN trim_matches(AllButLast(s))
    ELSE s

Contains(seq, x) == \E i \in 1..Len(seq) : seq[i] = x

\* the loops over the words without the contains() test
RECURSIVE extract_tags_all(_, _, _)
extract_tags_all(words, sigil, acc) ==
    IF words = <<>> THEN acc
    ELSE LET word == Head(words)
             tag == trim_matches(Tail(word))
         IN  IF starts_with(word, <<sigil>>) /\ ByteLen(word) > 1 /\ tag # <<>>
             THEN extract_tags_all(Tail(words), sigil, Append(acc, tag))
             ELSE extract_tags_all(Tail(words), sigil, acc)

\* the loops of lines 105-122 over the words of the content, sigil "#" or "@"
RECURSIVE extract_tags(_, _, _)
extract_tags(words, sigil, acc) ==
    IF words = <<>> THEN acc
    ELSE LET word == Head(words)
             tag == trim_matches(Tail(word))
         IN  IF starts_with(word, <<sigil>>) /\ ByteLen(word) > 1
                /\ tag # <<>> /\ ~Contains(acc, tag)
             THEN extract_tags(Tail(words), sigil, Append(acc, tag))
             ELSE extract_tags(Tail(words), sigil, acc)

\* the loop over the lines with line numbers counted from 1
RECURSIVE extract_todos_from_one(_, _, _, _, _)
extract_todos_from_one(ls, n, projects, people, path) ==
    IF n >= Len(ls) THEN <<>>
    ELSE LET trimmed == trim(ls[n + 1])
             todo(text, completed) ==
                 [text |-> text, completed |-> completed, line_number |-> n + 1,
                  projects |-> projects, people |-> people, log_path |-> path]
         IN  (IF starts_with(trimmed, <<"[", "]">>)
              THEN <<todo(trim(Skip(trimmed, 2)), FALSE)>>
              ELSE IF starts_with(trimmed, <<"[", "x", "]">>)
                      \/ starts_with(trimmed, <<"[", "X", "]">>)
              THEN <<todo(trim(Skip(trimmed, 3)), TRUE)>>
              ELSE <<>>)
             \o extract_todos_from_one(ls, n + 1, projects, people, path)

\* the loop of lines 125-148 from (0-based) line n on
RECURSIVE extract_todos(_, _, _, _, _)
extract_todos(ls, n, projects, people, path) ==
    IF n >= Len(ls) THEN <<>>
    ELSE LET trimmed == trim(ls[n + 1])
             todo(text, completed) ==
                 [text |-> text, completed |-> completed, line_number |-> n,
                  projects |-> projects, people |-> people, log_path |-> path]
         IN  (IF starts_with(trimmed, <<"[", "]">>)
              THEN <<todo(trim(Skip(trimmed, 2)), FALSE)>>
              ELSE IF starts_with(trimmed, <<"[", "x", "]">>)
                      \/ starts_with(trimmed, <<"[", "X", "]">>)
              THEN <<todo(trim(Skip(trimmed, 3)), TRUE)>>
              ELSE <<>>)
             \o extract_todos(ls, n + 1, projects, people, path)

\* LogEntry::parse with todos that carry the tags of their own line only
parse_line_local(content, file_path) ==
    LET projects == extract_tags(split_whitespace(content), "#", <<>>)
        people == extract_tags(split_whitespace(content), "@", <<>>)
        whole == extract_todos(lines(content), 0, projects, people, file_path)
        line_of(t) == lines(content)[t.line_number + 1]
    IN  [timestamp |-> parse_timestamp(file_path),
         content |-> content,
         projects |-> projects,
         people |-> people,
         todos |-> [i \in 1..Len(whole) |->
                      [whole[i] EXCEPT
                         !.projects = extract_tags(split_whitespace(line_of(whole[i])), "#", <<>>),
                         !.people = extract_tags(split_whitespace(line_of(whole[i])), "@", <<>>)]],
         file_path |-> file_path]

\* LogEntry::parse
parse(content, file_path) ==
    LET projects == extract_tags(split_whitespace(content), "#", <<>>)
        people == extract_tags(split_whitespace(content), "@", <<>>)
    IN  [timestamp |-> parse_timestamp(file_path),
         content |-> content,
         projects |-> projects,
         people |-> people,
         todos |-> extract_todos(lines(content), 0, projects, people, file_path),
         file_path |-> file_path]

\* the body of the i == self.line_number branch of Todo::toggle (lines 197-210)
toggle_line(line, completed) ==
    IF completed
    THEN replace(replace(line, <<"[", "x", "]">>, <<"[", "]">>),
                 <<"[", "X", "]">>, <<"[", "]">>)
    ELSE IF starts_with(trim(line), <<"[", "]">>)
    THEN replacen1(line, <<"[", "]">>, <<"[", "x", "]">>)
    ELSE line

\* the text Todo::toggle hands to fs::write, from the text fs::read_to_string gave
toggle_content(todo, content) ==
    LET ls == lines(content)
    IN  join([i \in 1..Len(ls) |->
                IF i - 1 = todo.line_number THEN toggle_line(ls[i], todo.completed)
                ELSE ls[i]], LF)

\* mutant of toggle_flag: the flag is left as it was
toggle_flag_kept(todo) == todo

\* line 217: self.completed = !self.completed
toggle_flag(todo) == [todo EXCEPT !.completed = ~todo.completed]

\* iter().any(|p| selected.contains(p))
any_contains(tags, selected) == \E i \in 1..Len(tags) : Contains(selected, tags[i])

\* mutant of TodoFilter_matches: a todo must carry every selected project
TodoFilter_matches_all_of(f, todo) ==
    IF ~f.show_completed /\ todo.completed THEN FALSE
    ELSE IF f.projects # <<>> /\ ~(\A i \in 1..Len(f.projects) :
                                        Contains(todo.projects, f.projects[i])) THEN FALSE
    ELSE IF f.people # <<>> /\ ~any_contains(todo.people, f.people) THEN FALSE
    ELSE TRUE

\* TodoFilter::matches
TodoFilter_matches(f, todo) ==
    IF ~f.show_completed /\ todo.completed THEN FALSE
    ELSE IF f.projects # <<>> /\ ~any_contains(todo.projects, f.projects) THEN FALSE
    ELSE IF f.people # <<>> /\ ~any_contains(todo.people, f.people) THEN FALSE
    ELSE TRUE

\* Option<NaiveDate>: None is <<>>, Some(d) is <<d>>, d the day of January 2024
NoDate == <<>>

SomeDate(d) == <<d>>

\* mutant of LogFilter_matches: the start date itself is excluded
LogFilter_matches_after_start(f, entry, off) ==
    LET entry_date == date_naive(entry.timestamp, off)
    IN  IF f.projects # <<>> /\ ~any_contains(entry.projects, f.projects) THEN FALSE
        ELSE IF f.people # <<>> /\ ~any_contains(entry.people, f.people) THEN FALSE
        ELSE IF f.start_date # NoDate /\ entry_date <= f.start_date[1] THEN FALSE
        ELSE IF f.end_date # NoDate /\ entry_date > f.end_date[1] THEN FALSE
        ELSE TRUE

\* LogFilter::matches, in the local zone off hours from UTC
LogFilter_matches(f, entry, off) ==
    LET entry_date == date_naive(entry.timestamp, off)
    IN  IF f.projects # <<>> /\ ~any_contains(entry.projects, f.projects) THEN FALSE
        ELSE IF f.people # <<>> /\ ~any_contains(entry.people, f.people) THEN FALSE
        ELSE IF f.start_date # NoDate /\ entry_date < f.start_date[1] THEN FALSE
        ELSE IF f.end_date # NoDate /\ entry_date > f.end_date[1] THEN FALSE
        ELSE TRUE

----------------------------------------------------------------------------
(* storage.rs and the list methods of ui/app.rs *)

\* the entry of files with the latest timestamp
Newest(entries) ==
    CHOOSE e \in entries : \A o \in entries : o.timestamp <= e.timestamp

\* entries.sort_by(|a, b| b.timestamp.cmp(&a.timestamp)): newest first
RECURSIVE sort_newest_first(_)
sort_newest_first(entries) ==
    IF entries = {} THEN <<>>
    ELSE <<Newest(entries)>> \o sort_newest_first(entries \ {Newest(entries)})

\* Storage::load_all_logs: every log.txt parsed, newest first
load_all_logs(files) ==
    sort_newest_first({parse(files[path], path) : path \in DOMAIN files})

\* todos.extend(entry.todos) over the entries in order
RECURSIVE extend_todos(_)
extend_todos(entries) ==
    IF entries = <<>> THEN <<>> ELSE Head(entries).todos \o extend_todos(Tail(entries))

\* Storage::load_all_todos
load_all_todos(files) == extend_todos(load_all_logs(files))

all_project_names(a) == a.projects

all_people_names(a) == a.people

go_back(a) ==
    IF a.previous_screen # "None"
    THEN [a EXCEPT !.screen = a.previous_screen, !.previous_screen = "None"]
    ELSE [a EXCEPT !.screen = "Menu"]

apply_todo_filter(a) ==
    [a EXCEPT !.filtered_todos =
        SelectSeq(a.todos, LAMBDA t : TodoFilter_matches(a.todo_filter, t))]

apply_log_filter(a, off) ==
    [a EXCEPT !.filtered_logs =
        SelectSeq(a.logs, LAMBDA l : LogFilter_matches(a.log_filter, l, off))]

\* show_todos after Storage::load_all_todos returned the todos of files
show_todos(a, files) ==
    go_to_screen([apply_todo_filter([a EXCEPT !.todos = load_all_todos(files)])
                    EXCEPT !.todo_selected = 0], "TodoList")

\* show_logs after Storage::load_all_logs returned the entries of files
show_logs(a, files, off) ==
    go_to_screen([apply_log_filter([a EXCEPT !.logs = load_all_logs(files)], off)
                    EXCEPT !.log_selected = 0], "LogList")

view_selected_log(a) ==
    IF a.log_selected < Len(a.filtered_logs)
    THEN go_to_screen([a EXCEPT !.view_log_path =
                            a.filtered_logs[a.log_selected + 1].file_path], "ViewLog")
    ELSE a

view_todo_log(a) ==
    IF a.todo_selected < Len(a.filtered_todos)
    THEN go_to_screen([a EXCEPT !.view_log_path =
                            a.filtered_todos[a.todo_selected + 1].log_path], "ViewLog")
    ELSE a

\* mutant of update_main_list: the main list is left as it was
update_main_list_skipped(todos, todo) == todos

\* the loop of toggle_selected_todo (lines 300-305): the first todo of the main
\* list with the path and line of todo takes its completed flag
RECURSIVE update_main_list(_, _)
update_main_list(todos, todo) ==
    IF todos = <<>> THEN <<>>
    ELSE IF Head(todos).log_path = todo.log_path
            /\ Head(todos).line_number = todo.line_number
    THEN <<[Head(todos) EXCEPT !.completed = todo.completed]>> \o Tail(todos)
    ELSE <<Head(todos)>> \o update_main_list(Tail(todos), todo)

\* Vec::retain(|p| p != name) or Vec::push(name): the toggle of one filter entry
retain_or_push(selected, name) ==
    IF Contains(selected, name)
    THEN SelectSeq(selected, LAMBDA p : p # name)
    ELSE Append(selected, name)

toggle_todo_filter_project(a, project) ==
    apply_todo_filter([a EXCEPT !.todo_filter.projects = retain_or_push(@, project)])

\* mutant of toggle_todo_filter_person: apply_todo_filter is not called
toggle_todo_filter_person_unapplied(a, person) ==
    [a EXCEPT !.todo_filter.people = retain_or_push(@, person)]

toggle_todo_filter_person(a, person) ==
    apply_todo_filter([a EXCEPT !.todo_filter.people = retain_or_push(@, person)])

toggle_log_filter_project(a, project, off) ==
    apply_log_filter([a EXCEPT !.log_filter.projects = retain_or_push(@, project)], off)

toggle_log_filter_person(a, person, off) ==
    apply_log_filter([a EXCEPT !.log_filter.people = retain_or_push(@, person)], off)

\* "2024-01-0"
DatePrefix == <<"2", "0", "2", "4", "-", "0", "1", "-", "0">>

\* NaiveDate::parse_from_str(input, "%Y-%m-%d") on the inputs of this model:
\* "2024-01-01" and "2024-01-02" are dates, their non-empty proper prefixes are
\* errors (<<>>)
parse_date(input) ==
    IF input = DatePrefix \o <<"1">> THEN <<1>>
    ELSE IF input = DatePrefix \o <<"2">> THEN <<2>>
    ELSE <<>>

\* NaiveDate::format("%Y-%m-%d").to_string() of Some(d), String::new() of None
format_date(date) ==
    IF date = NoDate THEN <<>>
    ELSE IF date[1] = 1 THEN DatePrefix \o <<"1">>
    ELSE DatePrefix \o <<"2">>

set_start_date_from_input(a, off) ==
    apply_log_filter(
        IF a.start_date_input = <<>> THEN [a EXCEPT !.log_filter.start_date = NoDate]
        ELSE IF parse_date(a.start_date_input) # <<>>
        THEN [a EXCEPT !.log_filter.start_date = SomeDate(parse_date(a.start_date_input)[1])]
        ELSE a, off)

set_end_date_from_input(a, off) ==
    apply_log_filter(
        IF a.end_date_input = <<>> THEN [a EXCEPT !.log_filter.end_date = NoDate]
        ELSE IF parse_date(a.end_date_input) # <<>>
        THEN [a EXCEPT !.log_filter.end_date = SomeDate(parse_date(a.end_date_input)[1])]
        ELSE a, off)

init_date_inputs(a) ==
    [a EXCEPT !.start_date_input = format_date(a.log_filter.start_date),
              !.end_date_input = format_date(a.log_filter.end_date)]

----------------------------------------------------------------------------
(* main.rs: the key handlers of the todo list, the log list and the log     *)
(* view, as functions from App and key to App                               *)

\* len.saturating_sub(1)
saturating_pred(n) == IF n > 0 THEN n - 1 ELSE 0

\* handle_todo_list_input with no panel open, every key but 'x'
handle_todo_list_input(a, key) ==
    CASE key = "Esc" -> go_to_screen(a, "Menu")
      [] key = "Up" -> [a EXCEPT !.todo_selected = IF @ > 0 THEN @ - 1 ELSE @]
      [] key = "Down" ->
            [a EXCEPT !.todo_selected =
                IF @ < saturating_pred(Len(a.filtered_todos)) THEN @ + 1 ELSE @]
      [] key = "l" -> view_todo_log(a)
      [] key = "c" -> [a EXCEPT !.todo_filter_panel = "Completed"]
      [] key = "p" -> [a EXCEPT !.todo_filter_project_selected = 0,
                                !.todo_filter_panel = "Projects"]
      [] key = "h" -> [a EXCEPT !.todo_filter_people_selected = 0,
                                !.todo_filter_panel = "People"]
      [] OTHER -> a

handle_todo_completed_filter_input(a, key) ==
    CASE key = "Esc" -> [a EXCEPT !.todo_filter_panel = "None"]
      [] key = "x" ->
            [apply_todo_filter([a EXCEPT !.todo_filter.show_completed = ~@])
                EXCEPT !.todo_selected = 0]
      [] OTHER -> a

handle_todo_project_filter_input(a, key) ==
    CASE key = "Esc" -> [a EXCEPT !.todo_filter_panel = "None", !.todo_selected = 0]
      [] key = "Up" ->
            [a EXCEPT !.todo_filter_project_selected = IF @ > 0 THEN @ - 1 ELSE @]
      [] key = "Down" ->
            [a EXCEPT !.todo_filter_project_selected =
                IF @ < saturating_pred(Len(all_project_names(a))) THEN @ + 1 ELSE @]
      [] key = "x" ->
            [(IF a.todo_filter_project_selected < Len(all_project_names(a))
              THEN toggle_todo_filter_project(a,
                        all_project_names(a)[a.todo_filter_project_selected + 1])
              ELSE a) EXCEPT !.todo_selected = 0]
      [] OTHER -> a

handle_todo_people_filter_input(a, key) ==
    CASE key = "Esc" -> [a EXCEPT !.todo_filter_panel = "None", !.todo_selected = 0]
      [] key = "Up" ->
            [a EXCEPT !.todo_filter_people_selected = IF @ > 0 THEN @ - 1 ELSE @]
      [] key = "Down" ->
            [a EXCEPT !.todo_filter_people_selected =
                IF @ < saturating_pred(Len(all_people_names(a))) THEN @ + 1 ELSE @]
      [] key = "x" ->
            [(IF a.todo_filter_people_selected < Len(all_people_names(a))
              THEN toggle_todo_filter_person(a,
                        all_people_names(a)[a.todo_filter_people_selected + 1])
              ELSE a) EXCEPT !.todo_selected = 0]
      [] OTHER -> a

\* handle_log_list_input with no panel open ("l" stands for 'l' and Enter)
handle_log_list_input(a, key) ==
    CASE key = "Esc" -> go_to_screen(a, "Menu")
      [] key = "Up" -> [a EXCEPT !.log_selected = IF @ > 0 THEN @ - 1 ELSE @]
      [] key = "Down" ->
            [a EXCEPT !.log_selected =
                IF @ < saturating_pred(Len(a.filtered_logs)) THEN @ + 1 ELSE @]
      [] key = "l" -> view_selected_log(a)
      [] key = "s" -> [init_date_inputs(a) EXCEPT !.log_filter_panel = "StartDate"]
      [] key = "e" -> [init_date_inputs(a) EXCEPT !.log_filter_panel = "EndDate"]
      [] key = "p" -> [a EXCEPT !.log_filter_project_selected = 0,
                                !.log_filter_panel = "Projects"]
      [] key = "h" -> [a EXCEPT !.log_filter_people_selected = 0,
                                !.log_filter_panel = "People"]
      [] OTHER -> a

\* String::push(c) while len() < 10
push_date_char(input, c) == IF ByteLen(input) < 10 THEN Append(input, c) ELSE input

\* String::pop
pop(input) == IF input = <<>> THEN input ELSE AllButLast(input)

\* handle_date_filter_input; "Enter" stands for Enter and Esc, any other key not
\* named here is a digit or '-'
handle_date_filter_input(a, key, is_start, off) ==
    CASE key = "Enter" ->
            [(IF is_start THEN set_start_date_from_input(a, off)
              ELSE set_end_date_from_input(a, off))
                EXCEPT !.log_filter_panel = "None", !.log_selected = 0]
      [] key = "s" -> [a EXCEPT !.log_filter_panel = "StartDate"]
      [] key = "e" -> [a EXCEPT !.log_filter_panel = "EndDate"]
      [] key = "Backspace" ->
            IF is_start THEN [a EXCEPT !.start_date_input = pop(@)]
            ELSE [a EXCEPT !.end_date_input = pop(@)]
      [] OTHER ->
            IF is_start THEN [a EXCEPT !.start_date_input = push_date_char(@, key)]
            ELSE [a EXCEPT !.end_date_input = push_date_char(@, key)]

\* handle_project_filter_input (of the log list)
handle_project_filter_input(a, key, off) ==
    CASE key = "Esc" -> [a EXCEPT !.log_filter_panel = "None", !.log_selected = 0]
      [] key = "Up" ->
            [a EXCEPT !.log_filter_project_selected = IF @ > 0 THEN @ - 1 ELSE @]
      [] key = "Down" ->
            [a EXCEPT !.log_filter_project_selected =
                IF @ < saturating_pred(Len(all_project_names(a))) THEN @ + 1 ELSE @]
      [] key = "x" ->
            IF a.log_filter_project_selected < Len(all_project_names(a))
            THEN toggle_log_filter_project(a,
                    all_project_names(a)[a.log_filter_project_selected + 1], off)
            ELSE a
      [] OTHER -> a

\* handle_people_filter_input (of the log list)
handle_people_filter_input(a, key, off) ==
    CASE key = "Esc" -> [a EXCEPT !.log_filter_panel = "None", !.log_selected = 0]
      [] key = "Up" ->
            [a EXCEPT !.log_filter_people_selected = IF @ > 0 THEN @ - 1 ELSE @]
      [] key = "Down" ->
            [a EXCEPT !.log_filter_people_selected =
                IF @ < saturating_pred(Len(all_people_names(a))) THEN @ + 1 ELSE @]
      [] key = "x" ->
            IF a.log_filter_people_selected < Len(all_people_names(a))
            THEN toggle_log_filter_person(a,
                    all_people_names(a)[a.log_filter_people_selected + 1], off)
            ELSE a
      [] OTHER -> a

\* handle_view_log_input, KeyCode::Esc
handle_view_log_input(a, key) ==
    CASE key = "Esc" -> go_back(a)
      [] OTHER -> a

----------------------------------------------------------------------------
(* The list screens: a session that starts on the menu with two log files   *)
(* in storage and opens the todo list or the log list.                      *)

\* "[] a #Ab @a\n[x] a": the tags Ab and a, an open and a completed todo
TextTagged ==
    <<"[", "]", " ", "a", " ", "#", "A", "b", " ", "@", "a", "\n",
      "[", "x", "]", " ", "a">>

\* "[x] #U+E9": the tag e-acute, a completed todo
TextAccent == <<"[", "x", "]", " ", "#", "U+E9">>

\* the local zones of a session, in hours from UTC
Zones == {0 - 1, 0}

\* the projects and people of a session
ListProjects == << <<"A", "b">>, <<"U+E9">> >>
ListPeople == << <<"a">> >>

\* the date texts a user types into a date panel
DateTexts == {DatePrefix \o <<"1">>, DatePrefix \o <<"2">>}

InitList ==
    /\ app = [AppNew EXCEPT !.projects = ListProjects, !.people = ListPeople]
    /\ run_app = "looping"
    /\ disk = (PathEve :> TextTagged) @@ (PathMorn :> TextAccent)
    /\ zone \in Zones
    /\ last = Did("new", "none", FALSE)
    /\ toggles = <<>>
    /\ moves = <<>>

\* the menu of a session that has not left it yet
OnFirstMenu == OnMenu /\ app.previous_screen = "None"

\* handle_menu_input, KeyCode::Char('2'): execute_menu_selection(1)
MenuShowTodos ==
    /\ OnFirstMenu
    /\ Handled("show_todos", show_todos(clear_status(app), disk))

\* handle_menu_input, KeyCode::Char('3'): execute_menu_selection(2)
MenuShowLogs ==
    /\ OnFirstMenu
    /\ Handled("show_logs", show_logs(clear_status(app), disk, zone))

OnTodoList(panel) ==
    run_app = "looping" /\ app.screen = "TodoList" /\ app.todo_filter_panel = panel

OnLogList(panel) ==
    run_app = "looping" /\ app.screen = "LogList" /\ app.log_filter_panel = panel

TodoListKey ==
    /\ OnTodoList("None")
    /\ \E key \in {"Esc", "Up", "Down", "l", "c", "p", "h"} :
         Handled("key", handle_todo_list_input(clear_status(app), key))

\* handle_todo_list_input, KeyCode::Char('x'): app.toggle_selected_todo()? and
\* app.apply_todo_filter().  Todo::toggle may fail in fs::read_to_string or
\* fs::write; the ? then carries the error out of run_app
TodoListToggle ==
    /\ OnTodoList("None")
    /\ LET a == clear_status(app)
           sel == a.todo_selected
       IN  IF sel < Len(a.filtered_todos)
           THEN LET todo == a.filtered_todos[sel + 1]
                    toggled == toggle_flag(todo)
                IN  \E io \in {"ok", "read_err", "write_err"} :
                      IF io = "ok"
                      THEN /\ disk' = [disk EXCEPT ![todo.log_path] =
                                            toggle_content(todo, @)]
                           /\ app' = apply_todo_filter(
                                        [a EXCEPT !.filtered_todos[sel + 1] = toggled,
                                                  !.todos = update_main_list(a.todos, toggled)])
                           /\ last' = Did("toggle_selected_todo", "ok", TRUE)
                           /\ UNCHANGED <<run_app, zone, toggles>>
                           /\ moves' = <<>>
                      ELSE /\ app' = a
                           /\ run_app' = "returned_err"
                           /\ last' = Did("toggle_selected_todo", "err", FALSE)
                           /\ UNCHANGED <<disk, zone, toggles>>
                           /\ moves' = <<>>
           ELSE Handled("toggle_selected_todo", apply_todo_filter(a))

TodoCompletedPanelKey ==
    /\ OnTodoList("Completed")
    /\ \E key \in {"Esc", "x"} :
         Handled("key", handle_todo_completed_filter_input(clear_status(app), key))

TodoProjectsPanelKey ==
    /\ OnTodoList("Projects")
    /\ \E key \in {"Esc", "Up", "Down", "x"} :
         Handled("key", handle_todo_project_filter_input(clear_status(app), key))

TodoPeoplePanelKey ==
    /\ OnTodoList("People")
    /\ \E key \in {"Esc", "Up", "Down", "x"} :
         Handled("key", handle_todo_people_filter_input(clear_status(app), key))

LogListKey ==
    /\ OnLogList("None")
    /\ \E key \in {"Esc", "Up", "Down", "l", "s", "e", "p", "h"} :
         Handled("key", handle_log_list_input(clear_status(app), key))

\* the keys of a date panel.  The user edits one input at a time (the other one
\* still shows the date of the filter), and a typed character continues one of
\* DateTexts
DatePanelKey ==
    \E is_start \in BOOLEAN :
        /\ OnLogList(IF is_start THEN "StartDate" ELSE "EndDate")
        /\ LET input == IF is_start THEN app.start_date_input ELSE app.end_date_input
               other_shows_filter ==
                   IF is_start THEN app.end_date_input = format_date(app.log_filter.end_date)
                   ELSE app.start_date_input = format_date(app.log_filter.start_date)
           IN  \E key \in {"Enter", "s", "e", "Backspace", "0", "1", "2", "4", "-"} :
                 /\ key \in {"Backspace", "0", "1", "2", "4", "-"} => other_shows_filter
                 /\ key \in {"0", "1", "2", "4", "-"} =>
                        \E t \in DateTexts : starts_with(t, Append(input, key))
                 /\ Handled("key", handle_date_filter_input(clear_status(app), key, is_start, zone))

LogProjectsPanelKey ==
    /\ OnLogList("Projects")
    /\ \E key \in {"Esc", "Up", "Down", "x"} :
         Handled("key", handle_project_filter_input(clear_status(app), key, zone))

LogPeoplePanelKey ==
    /\ OnLogList("People")
    /\ \E key \in {"Esc", "Up", "Down", "x"} :
         Handled("key", handle_people_filter_input(clear_status(app), key, zone))

ViewLogKey ==
    /\ run_app = "looping" /\ app.screen = "ViewLog"
    /\ \E key \in {"Esc", "Up"} :
         Handled("key", handle_view_log_input(clear_status(app), key))

NextList ==
    \/ MenuShowTodos
    \/ MenuShowLogs
    \/ MenuQuit
    \/ TodoListKey
    \/ TodoListToggle
    \/ TodoCompletedPanelKey
    \/ TodoProjectsPanelKey
    \/ TodoPeoplePanelKey
    \/ LogListKey
    \/ DatePanelKey
    \/ LogProjectsPanelKey
    \/ LogPeoplePanelKey
    \/ ViewLogKey

SpecList == InitList /\ [][NextList]_vars

----------------------------------------------------------------------------
(* Claims about the filters and the list screens, checked under SpecList *)

\* the elements of a Vec
Range(seq) == {seq[i] : i \in 1..Len(seq)}

\* section 4.3 for todos: the dimensions are ANDed, a non-empty dimension asks for
\* any common element
TodoMatchRule(f, todo) ==
    /\ f.show_completed \/ ~todo.completed
    /\ f.projects = <<>> \/ Range(todo.projects) \cap Range(f.projects) # {}
    /\ f.people = <<>> \/ Range(todo.people) \cap Range(f.people) # {}

\* section 4.3 for logs: both date bounds are inclusive
LogMatchRule(f, entry) ==
    /\ f.projects = <<>> \/ Range(entry.projects) \cap Range(f.projects) # {}
    /\ f.people = <<>> \/ Range(entry.people) \cap Range(f.people) # {}
    /\ f.start_date = NoDate \/ f.start_date[1] <= date_naive(entry.timestamp, zone)
    /\ f.end_date = NoDate \/ date_naive(entry.timestamp, zone) <= f.end_date[1]

\* C14: for every TodoFilter F and Todo T, F.matches(T) is true iff
\* (F.show_completed or not T.completed) and (F.projects is empty or T.projects
\* shares an element with F.projects) and (F.people is empty or T.people shares an
\* element with F.people): here for every filter a session can set and every todo
\* it has loaded or toggled
C14_TodoFilterMatches ==
    \A k \in 1..Len(app.todos) :
        TodoFilter_matches(app.todo_filter, app.todos[k])
          <=> TodoMatchRule(app.todo_filter, app.todos[k])

\* C14 witness: two projects and a person are selected, completed todos are shown,
\* and the filter keeps some of the loaded todos and drops others
C14_Witness ==
    /\ app.screen = "TodoList"
    /\ Len(app.todo_filter.projects) = 2
    /\ app.todo_filter.people # <<>>
    /\ app.todo_filter.show_completed
    /\ \E k \in 1..Len(app.todos) : TodoFilter_matches(app.todo_filter, app.todos[k])
    /\ \E k \in 1..Len(app.todos) : ~TodoFilter_matches(app.todo_filter, app.todos[k])

\* C15: for every LogFilter F and entry E, F.matches(E) is true iff (F.projects is
\* empty or E.projects intersects it) and (F.people is empty or E.people
\* intersects it) and (no start date or start_date <= date(E.timestamp)) and (no
\* end date or date(E.timestamp) <= end_date), both bounds inclusive: here for
\* every filter a session can set and every entry it has loaded
C15_LogFilterMatches ==
    \A k \in 1..Len(app.logs) :
        LogFilter_matches(app.log_filter, app.logs[k], zone)
          <=> LogMatchRule(app.log_filter, app.logs[k])

\* C15 witness: both bounds are set to the date of one of two loaded entries, which
\* the filter keeps while it drops the other
C15_Witness ==
    /\ app.screen = "LogList"
    /\ Len(app.logs) = 2
    /\ app.log_filter.start_date # NoDate
    /\ app.log_filter.end_date = app.log_filter.start_date
    /\ \E k \in 1..Len(app.logs) :
         /\ date_naive(app.logs[k].timestamp, zone) = app.log_filter.start_date[1]
         /\ app.filtered_logs = <<app.logs[k]>>

\* C16: between key events, on the TodoList screen filtered_todos is the
\* sub-sequence of todos that todo_filter matches, and on the LogList screen
\* filtered_logs is the sub-sequence of logs that log_filter matches
C16_FilteredListsAreCurrent ==
    /\ app.screen = "TodoList" =>
         app.filtered_todos
           = SelectSeq(app.todos, LAMBDA t : TodoMatchRule(app.todo_filter, t))
    /\ app.screen = "LogList" =>
         app.filtered_logs
           = SelectSeq(app.logs, LAMBDA l : LogMatchRule(app.log_filter, l))

\* C16 witness: a todo has just been toggled while completed todos are hidden, and
\* the list shows fewer todos than are loaded
C16_Witness ==
    /\ app.screen = "TodoList"
    /\ last.op = "toggle_selected_todo"
    /\ last.io = "ok"
    /\ app.todo_filter.people # <<>>
    /\ ~app.todo_filter.show_completed
    /\ Len(app.filtered_todos) < Len(app.todos)

\* the todos of a list that lie at the path and line of todo
SameLine(list, todo) ==
    {k \in 1..Len(list) : /\ list[k].log_path = todo.log_path
                          /\ list[k].line_number = todo.line_number}

\* C17: after the x key has toggled the selected todo, every Todo of App.todos and
\* of App.filtered_todos with the path and line number of the toggled todo has the
\* completed value the toggle gave it
C17_ToggleResyncsLists ==
    [][(last'.op = "toggle_selected_todo" /\ last'.io = "ok") =>
        LET todo == app.filtered_todos[app.todo_selected + 1]
        IN  /\ SameLine(app'.todos, todo) # {}
            /\ \A k \in SameLine(app'.todos, todo) :
                 app'.todos[k].completed = ~todo.completed
            /\ \A k \in SameLine(app'.filtered_todos, todo) :
                 app'.filtered_todos[k].completed = ~todo.completed]_vars

\* C17 witness: the x key has completed an open todo, which the list still shows
C17_Witness ==
    /\ last.op = "toggle_selected_todo"
    /\ last.io = "ok"
    /\ app.todo_filter.show_completed
    /\ app.todo_selected < Len(app.filtered_todos)
    /\ app.filtered_todos[app.todo_selected + 1].completed
    /\ app.filtered_todos[app.todo_selected + 1].line_number = 0
    /\ app.filtered_todos[app.todo_selected + 1].log_path = PathEve
    /\ SameLine(app.todos, app.filtered_todos[app.todo_selected + 1]) # {}

\* C28: between key events on the TodoList screen todo_selected refers to an element
\* of filtered_todos whenever filtered_todos is non-empty, also after the last listed
\* todo was toggled while completed todos are hidden
C28_TodoSelectedInRange ==
    (app.screen = "TodoList" /\ app.filtered_todos # <<>>) =>
        app.todo_selected < Len(app.filtered_todos)

----------------------------------------------------------------------------
(* Todo::toggle applied to todos parsed from generated log files.  The file *)
(* may have been edited by another program after it was parsed: the todo is *)
(* then stale.                                                              *)

\* the lines log files are generated from
TodoLines ==
    { <<"[", "]", " ", "a">>,
      <<"[", "x", "]", " ", "a">>,
      <<"[", "X", "]", " ", "a", " ", "[", "x", "]">>,
      <<"a", " ", "[", "x", "]">>,
      <<" ", "[", "]", " ", "a">>,
      <<>> }

LineSeqs == UNION {[1..k -> TodoLines] : k \in 0..MaxLines}

\* a file of the lines ls, each ended by eol, the last one only if trailing
MkFile(ls, eol, trailing) ==
    join(ls, eol) \o (IF trailing /\ ls # <<>> THEN eol ELSE <<>>)

\* ls after another program deleted or replaced one line (or left it alone)
Edits(ls) ==
    {ls}
    \cup {SubSeq(ls, 1, k - 1) \o SubSeq(ls, k + 1, Len(ls)) : k \in 1..Len(ls)}
    \cup {[ls EXCEPT ![k] = l] : k \in 1..Len(ls), l \in TodoLines}

InitToggle ==
    \E ls \in LineSeqs, eol \in {LF, CRLF}, trailing \in BOOLEAN :
      \E edited \in Edits(ls) :
        /\ app = [AppNew EXCEPT !.screen = "TodoList",
                                !.previous_screen = "Menu",
                                !.todos = parse(MkFile(ls, eol, trailing), LogPath).todos]
        /\ disk = (LogPath :> MkFile(edited, eol, trailing))
        /\ zone = 0
        /\ run_app = "looping"
        /\ last = Did("load_all_todos", "ok", FALSE)
        /\ toggles = <<>>
        /\ moves = <<>>

\* the todo is what parsing the file as it is now yields at the same place
Fresh(i, content) ==
    LET now == parse(content, LogPath).todos
    IN  i <= Len(now) /\ now[i] = app.todos[i]

\* the record of one successful toggle of todo i
Toggled(i) ==
    [index |-> i, todo |-> app.todos[i], read |-> disk[app.todos[i].log_path],
     fresh |-> Fresh(i, disk[app.todos[i].log_path])]

\* Todo::toggle on app.todos[i]; fs::read_to_string or fs::write may fail, and then
\* the ? returns the error before the file or the flag is changed
ToggleTodo ==
    /\ run_app = "looping"
    /\ \E i \in 1..Len(app.todos), io \in {"ok", "read_err", "write_err"} :
         IF io = "ok"
         THEN /\ disk' = [disk EXCEPT ![app.todos[i].log_path] =
                                toggle_content(app.todos[i], @)]
              /\ app' = [app EXCEPT !.todos[i] = toggle_flag(app.todos[i])]
              /\ last' = Did("toggle", "ok", TRUE)
              /\ toggles' = (IF toggles # <<>> /\ toggles[Len(toggles)].index = i
                             THEN <<toggles[Len(toggles)], Toggled(i)>>
                             ELSE <<Toggled(i)>>)
              /\ UNCHANGED <<run_app, zone>>
              /\ moves' = <<>>
         ELSE /\ last' = Did("toggle", "err", FALSE)
              /\ toggles' = <<>>
              /\ UNCHANGED <<app, disk, zone, run_app>>
              /\ moves' = <<>>

\* Storage::load_all_todos: the file is parsed again
ReloadTodos ==
    /\ run_app = "looping"
    /\ app' = [app EXCEPT !.todos = parse(disk[LogPath], LogPath).todos]
    /\ last' = Did("load_all_todos", "ok", FALSE)
    /\ toggles' = <<>>
    /\ UNCHANGED <<disk, zone, run_app>>
    /\ moves' = <<>>

NextToggle ==
    \/ ToggleTodo
    \/ ReloadTodos

SpecToggle == InitToggle /\ [][NextToggle]_vars

----------------------------------------------------------------------------
(* Claims about Todo::toggle, checked under SpecToggle.  While toggles is   *)
(* not empty its last record is the latest toggle: Written is the file that *)
(* toggle wrote and app.todos[index] is the todo it left.                   *)

LastToggle == toggles[Len(toggles)]

\* the file the latest toggle wrote, as it is now
Written == disk[LastToggle.todo.log_path]

\* the file has a line (of str::lines) with 0-based index n
HasLine(content, n) == n < Len(lines(content))

\* that line
LineAt(content, n) == lines(content)[n + 1]

\* s with its leftmost "[x]" or "[X]" replaced by "[]"
RECURSIVE UncheckFirst(_)
UncheckFirst(s) ==
    IF Len(s) < 3 THEN s
    ELSE IF starts_with(s, <<"[", "x", "]">>) \/ starts_with(s, <<"[", "X", "]">>)
    THEN <<"[", "]">> \o Skip(s, 3)
    ELSE <<Head(s)>> \o UncheckFirst(Tail(s))

\* the line at the todo's line_number does not carry the marker the record expects
Stale(todo, content) ==
    LET line == LineAt(content, todo.line_number)
    IN  \/ ~HasLine(content, todo.line_number)
        \/ /\ HasLine(content, todo.line_number)
           /\ IF todo.completed
              THEN ~(\/ starts_with(trim(line), <<"[", "x", "]">>)
                     \/ starts_with(trim(line), <<"[", "X", "]">>))
              ELSE ~starts_with(trim(line), <<"[", "]">>)

\* C2: toggling a todo parsed from the file twice in succession leaves the file
\* with exactly its original content
C2_ToggleTwiceRestoresFile ==
    (Len(toggles) = 2 /\ toggles[1].fresh) => Written = toggles[1].read

\* C3: after toggling a todo t parsed from the unchanged file, re-parsing yields the
\* same number of todos at the same line numbers, every other todo keeps its
\* completed state, the todo at t.line_number has it negated, and t's in-memory
\* flag equals the re-parsed state while t.line_number is unchanged
C3_ToggleFlipsOneTodo ==
    (toggles # <<>> /\ LastToggle.fresh) =>
        LET before == parse(LastToggle.read, LogPath).todos
            after == parse(Written, LogPath).todos
            i == LastToggle.index
            t == app.todos[i]
        IN  /\ Len(after) = Len(before)
            /\ \A k \in 1..Len(before) :
                 /\ after[k].line_number = before[k].line_number
                 /\ k # i => after[k].completed = before[k].completed
            /\ after[i].line_number = LastToggle.todo.line_number
            /\ after[i].completed = ~before[i].completed
            /\ t.completed = after[i].completed
            /\ t.line_number = LastToggle.todo.line_number

\* C3 witness: a completed todo parsed from a file of two todos has been toggled
C3_Witness ==
    /\ toggles # <<>>
    /\ LastToggle.fresh
    /\ LastToggle.todo.completed
    /\ Len(app.todos) = 2
    /\ ~app.todos[LastToggle.index].completed

\* C4: a toggle rewrites exactly one line: the file keeps its number of lines and
\* every line whose index differs from the todo's line_number is as the toggle
\* read it
C4_ToggleRewritesOneLine ==
    toggles # <<>> =>
        LET before == lines(LastToggle.read)
            after == lines(Written)
        IN  /\ Len(after) = Len(before)
            /\ \A k \in 1..Len(before) :
                 k - 1 # LastToggle.todo.line_number => after[k] = before[k]

\* C5: toggling a completed todo replaces only the first "[x]" or "[X]" of the
\* target line by "[]"; toggling an incomplete todo whose trimmed line starts with
\* "[]" replaces only the first "[]" by "[x]"
C5_ToggleReplacesFirstMarker ==
    (/\ toggles # <<>>
     /\ HasLine(LastToggle.read, LastToggle.todo.line_number)
     /\ HasLine(Written, LastToggle.todo.line_number)) =>
        LET n == LastToggle.todo.line_number
            line == LineAt(LastToggle.read, n)
        IN  /\ LastToggle.todo.completed => LineAt(Written, n) = UncheckFirst(line)
            /\ (~LastToggle.todo.completed /\ starts_with(trim(line), <<"[", "]">>)) =>
                 LineAt(Written, n) = replacen1(line, <<"[", "]">>, <<"[", "x", "]">>)

\* C6: toggling a stale todo is a silent no-op: the line on disk is unchanged, no
\* error is returned and the in-memory completed flag is not changed
C6_StaleToggleIsNoOp ==
    (toggles # <<>> /\ Stale(LastToggle.todo, LastToggle.read)) =>
        /\ HasLine(Written, LastToggle.todo.line_number)
             = HasLine(LastToggle.read, LastToggle.todo.line_number)
        /\ HasLine(Written, LastToggle.todo.line_number) =>
             LineAt(Written, LastToggle.todo.line_number)
               = LineAt(LastToggle.read, LastToggle.todo.line_number)
        /\ last.io = "ok"
        /\ app.todos[LastToggle.index].completed = LastToggle.todo.completed

----------------------------------------------------------------------------
(* LogEntry::parse applied to generated texts: one log file of storage is  *)
(* loaded by the todo list or the log list of a new session                *)

\* the words and the lines the texts are generated from
TagWords ==
    { <<"#", "a">>, <<"#", "b">>, <<"#", "A">>, <<"@", "a">>,
      <<"#", "f", "o", "o", ",">>, <<"#">>, <<"#", ",">>, <<"#", "-">>, <<"a">> }

ParseLines ==
    { <<"[", "]">>,
      <<"[", "]", " ", "a">>,
      <<"[", "x", "]", " ", "a", " ">>,
      <<"[", "X", "]">>,
      <<" ", "[", "]", " ", "a", " ", "#", "a">>,
      <<"a", " ", "[", "]">>,
      <<"[", " ", "]", " ", "a">>,
      <<"#", "b", " ", "@", "a">>,
      <<>> }

ParseTexts ==
    {join(ws, <<" ">>) : ws \in UNION {[1..k -> TagWords] : k \in 1..MaxWords}}
    \cup {join(ls, LF) : ls \in UNION {[1..k -> ParseLines] : k \in 1..MaxLines}}

InitParse ==
    \E text \in ParseTexts :
        /\ app = AppNew
        /\ run_app = "looping"
        /\ disk = (PathEve :> text)
        /\ zone = 0
        /\ last = Did("new", "none", FALSE)
        /\ toggles = <<>>
        /\ moves = <<>>

NextParse ==
    \/ MenuShowTodos
    \/ MenuShowLogs

SpecParse == InitParse /\ [][NextParse]_vars

----------------------------------------------------------------------------
(* Claims about LogEntry::parse, checked under SpecParse.  Text is the     *)
(* content of the file; tokens and lines are found by their offsets.       *)

Text == disk[PathEve]

\* show_logs has loaded the file: Entry is what LogEntry::parse made of it
LogsLoaded == last.op = "show_logs" /\ Len(app.logs) = 1

Entry == app.logs[1]

\* show_todos has loaded the todos of the file
TodosLoaded == last.op = "show_todos"

\* the offsets at which a whitespace-delimited token of s starts, and the token
TokenStarts(s) ==
    {i \in 1..Len(s) : ~is_whitespace(s[i]) /\ (i = 1 \/ is_whitespace(s[i - 1]))}

TokenAt(s, i) ==
    SubSeq(s, i, CHOOSE j \in i..Len(s) :
                    /\ \A k \in i..j : ~is_whitespace(s[k])
                    /\ (j = Len(s) \/ is_whitespace(s[j + 1])))

\* a token without its first character and without the leading and trailing
\* characters that are not alphanumeric, "-" or "_"
TagName(w) ==
    LET ok == {k \in 2..Len(w) : is_alphanumeric(w[k]) \/ w[k] \in {"-", "_"}}
    IN  IF ok = {} THEN <<>>
        ELSE SubSeq(w, CHOOSE k \in ok : \A j \in ok : k <= j,
                       CHOOSE k \in ok : \A j \in ok : j <= k)

\* the offsets of the tokens that name a tag with the sigil "#" or "@"
TagStarts(s, sigil) ==
    {i \in TokenStarts(s) : s[i] = sigil /\ TagName(TokenAt(s, i)) # <<>>}

\* the offset of the first token of s that names the tag
FirstStart(s, sigil, name) ==
    CHOOSE i \in TagStarts(s, sigil) :
        /\ TagName(TokenAt(s, i)) = name
        /\ \A j \in TagStarts(s, sigil) : TagName(TokenAt(s, j)) = name => i <= j

\* tags holds no string twice and is in the order of first occurrence in s
FirstOccurrenceOrder(tags, s, sigil) ==
    \A i, j \in 1..Len(tags) :
        i < j => /\ tags[i] # tags[j]
                 /\ FirstStart(s, sigil, tags[i]) < FirstStart(s, sigil, tags[j])

\* C23: the projects of LogEntry::parse hold no duplicate, are in the order of first
\* occurrence in the text and are compared case-sensitively; the people obey the
\* same rule independently, so a name used as #n and @n is in both lists; the
\* projects of "#a #b #a" are ["a","b"]
C23_TagsDedupInOrder ==
    LogsLoaded =>
        /\ FirstOccurrenceOrder(Entry.projects, Text, "#")
        /\ FirstOccurrenceOrder(Entry.people, Text, "@")
        /\ Text = <<"#", "a", " ", "#", "b", " ", "#", "a">>
              => Entry.projects = << <<"a">>, <<"b">> >>
        /\ Text = <<"#", "A", " ", "#", "a">>
              => Entry.projects = << <<"A">>, <<"a">> >>
        /\ Text = <<"#", "a", " ", "@", "a">>
              => Entry.projects = << <<"a">> >> /\ Entry.people = << <<"a">> >>

\* "#a #b #a" has been parsed
C23_Witness ==
    /\ LogsLoaded
    /\ Text = <<"#", "a", " ", "#", "b", " ", "#", "a">>
    /\ Len(Entry.projects) = 2

\* C24: a whitespace-delimited token yields a project iff it starts with "#" and its
\* remainder, trimmed of leading and trailing characters that are not alphanumeric,
\* "-" or "_", is non-empty; the project is that remainder: "#foo," yields "foo",
\* "#" and "#," yield nothing
C24_ProjectTokens ==
    LogsLoaded =>
        /\ Range(Entry.projects) = {TagName(TokenAt(Text, i)) : i \in TagStarts(Text, "#")}
        /\ Text = <<"#", "f", "o", "o", ",">> => Entry.projects = << <<"f", "o", "o">> >>
        /\ Text \in {<<"#">>, <<"#", ",">>} => Entry.projects = <<>>

\* "#foo," has been parsed among other tokens
C24_Witness ==
    /\ LogsLoaded
    /\ \E i \in TokenStarts(Text) : TokenAt(Text, i) = <<"#", "f", "o", "o", ",">>
    /\ \E i \in TokenStarts(Text) : TokenAt(Text, i) = <<"#", ",">>
    /\ Entry.projects = << <<"f", "o", "o">> >>

\* the text of line k of s (0-based), the pieces between the newlines
LineText(s, k) == SubSeq(s, StartOfLine(s, k) + 1, StartOfLine(s, k) + LengthOfLine(s, k))

\* w without its leading and trailing whitespace
Trimmed(w) ==
    LET ink == {k \in 1..Len(w) : ~is_whitespace(w[k])}
    IN  IF ink = {} THEN <<>>
        ELSE SubSeq(w, CHOOSE k \in ink : \A j \in ink : k <= j,
                       CHOOSE k \in ink : \A j \in ink : j <= k)

OpenMarker == <<"[", "]">>
DoneMarkers == {<<"[", "x", "]">>, <<"[", "X", "]">>}

HasPrefix(w, p) == Len(w) >= Len(p) /\ \A i \in 1..Len(p) : w[i] = p[i]

IsOpenLine(w) == HasPrefix(Trimmed(w), OpenMarker)
IsDoneLine(w) == \E m \in DoneMarkers : HasPrefix(Trimmed(w), m)

\* the lines of s that start with a marker
MarkedLines(s) ==
    {k \in 0..(LineCount(s) - 1) : IsOpenLine(LineText(s, k)) \/ IsDoneLine(LineText(s, k))}

\* C25: LogEntry::parse yields exactly one todo per line whose trimmed text starts
\* with "[]", "[x]" or "[X]" and none for any other line, in increasing line order,
\* with the 0-based line index as line_number; the todo is incomplete for "[]" and
\* completed for "[x]" / "[X]", and its text is the trimmed remainder after the
\* marker, empty for a line that is only "[]"
C25_TodosOfMarkedLines ==
    TodosLoaded =>
        /\ Len(app.todos) = Cardinality(MarkedLines(Text))
        /\ {app.todos[i].line_number : i \in 1..Len(app.todos)} = MarkedLines(Text)
        /\ \A i, j \in 1..Len(app.todos) :
               i < j => app.todos[i].line_number < app.todos[j].line_number
        /\ \A i \in 1..Len(app.todos) :
               LET w == Trimmed(LineText(Text, app.todos[i].line_number))
               IN  /\ app.todos[i].completed = IsDoneLine(w)
                   /\ app.todos[i].text =
                          Trimmed(SubSeq(w, (IF IsDoneLine(w) THEN 4 ELSE 3), Len(w)))
        /\ Text = OpenMarker =>
               /\ Len(app.todos) = 1
               /\ app.todos[1].text = <<>>
               /\ ~app.todos[1].completed

\* an unmarked line that holds a marker and then an indented "[]" line have been
\* parsed into one todo, of line 1
C25_Witness ==
    /\ TodosLoaded
    /\ LineCount(Text) = 2
    /\ LineText(Text, 0) = <<"a", " ", "[", "]">>
    /\ LineText(Text, 1) = <<" ", "[", "]", " ", "a", " ", "#", "a">>
    /\ MarkedLines(Text) = {1}
    /\ Len(app.todos) = 1
    /\ app.todos[1].line_number = 1
    /\ ~app.todos[1].completed

\* C26: every todo of LogEntry::parse carries the complete projects and people lists
\* of its entry, whichever lines the tags are on, later lines included
C26_TodosCarryEntryTags ==
    TodosLoaded =>
        \A i \in 1..Len(app.todos) :
            \A e \in Range(load_all_logs(disk)) :
                e.file_path = app.todos[i].log_path =>
                    /\ app.todos[i].projects = e.projects
                    /\ app.todos[i].people = e.people
                    /\ Range(e.projects) =
                          {TagName(TokenAt(Text, k)) : k \in TagStarts(Text, "#")}
                    /\ Range(e.people) =
                          {TagName(TokenAt(Text, k)) : k \in TagStarts(Text, "@")}

\* a todo of line 0 carries a project and a person that are named on line 1 only
C26_Witness ==
    /\ TodosLoaded
    /\ Len(app.todos) = 1
    /\ app.todos[1].line_number = 0
    /\ TagStarts(LineText(Text, 0), "#") = {}
    /\ app.todos[1].projects = << <<"b">> >>
    /\ app.todos[1].people = << <<"a">> >>

----------------------------------------------------------------------------
(* Saving an entry and loading it again.  The session runs in a zone off    *)
(* hours from UTC; the entry was started at an instant whose local time is  *)
(* one of the directory names of this model.                                *)

LogPaths == {PathEve, PathMorn, PathNoon}

\* LogEntry::dir_name: timestamp.format("%Y-%m-%d_%H-%M-%S") of a DateTime<Local>,
\* the day and the hour of the local time
dir_name(timestamp, off) ==
    [ok |-> TRUE, day |-> (timestamp + off) \div 24, hour |-> (timestamp + off) % 24]

\* the log file of save_log_entry: base_dir/log-<year>/<dir_name>/log.txt
log_file(timestamp, off) ==
    CHOOSE path \in LogPaths : dir_datetime(path) = dir_name(timestamp, off)

\* Storage::save_log_entry after create_dir_all and fs::write succeeded
save_log_entry(files, timestamp, content, off) ==
    [path \in DOMAIN files \cup {log_file(timestamp, off)} |->
        IF path = log_file(timestamp, off) THEN content ELSE files[path]]

\* the zones of a session, in hours from UTC
SaveZones == {0 - 1, 0, 1}

\* the contents of the entry when it is saved
SaveContents == ParseLines

InitSave ==
    \E path \in LogPaths, off \in SaveZones, content \in SaveContents :
        /\ app = [go_to_screen(AppNew, "LogEntry") EXCEPT
                     !.timestamp = parse_timestamp(path) - off,
                     !.content = content,
                     !.log_cursor_pos = Len(content)]
        /\ run_app = "looping"
        /\ disk = <<>>
        /\ zone = off
        /\ last = Did("insert_char", "none", FALSE)
        /\ toggles = <<>>
        /\ moves = <<>>

\* Ctrl+S with the file system of storage: save_log writes the content into the
\* directory named after the entry's timestamp; create_dir_all or fs::write may fail
SaveLog ==
    /\ OnLogEntry
    /\ IF save_log_is_empty(app)
       THEN Handled("save_log", save_log_empty(clear_status(app)))
       ELSE \E io_ok \in BOOLEAN :
              /\ app' = (IF io_ok THEN save_log_saved(clear_status(app))
                         ELSE clear_status(app))
              /\ disk' = (IF io_ok
                          THEN save_log_entry(disk, app.timestamp, app.content, zone)
                          ELSE disk)
              /\ run_app' = (IF io_ok THEN run_app ELSE "returned_err")
              /\ last' = Did("save_log", IF io_ok THEN "ok" ELSE "err", io_ok)
              /\ UNCHANGED <<zone, toggles>>
              /\ moves' = <<>>

\* handle_menu_input, KeyCode::Char('3'), in the menu that save_log returned to
MenuShowLogsSaved ==
    /\ OnMenu
    /\ app.previous_screen = "LogEntry"
    /\ Handled("show_logs", show_logs(clear_status(app), disk, zone))

NextSave ==
    \/ SaveLog
    \/ MenuShowLogsSaved
    \/ LogListKey

SpecSave == InitSave /\ [][NextSave]_vars

----------------------------------------------------------------------------
(* Claim about save and load, checked under SpecSave *)

\* the saved entry has been loaded: the one log of storage is the current log
SavedAndLoaded ==
    /\ DOMAIN disk # {}
    /\ app.screen = "LogList"
    /\ Len(app.logs) = 1
    /\ app.logs[1].content = app.content

\* C30: an entry saved by save_log_entry and then loaded by load_all_logs has the
\* timestamp, and therefore the calendar date, of the entry that was saved, whatever
\* the offset of the local zone from UTC
C30_SaveLoadKeepsTimestamp ==
    SavedAndLoaded =>
        /\ app.logs[1].timestamp = app.timestamp
        /\ date_naive(app.logs[1].timestamp, zone) = date_naive(app.timestamp, zone)

----------------------------------------------------------------------------
(* The project screens: the list, the details of a project with its logs,  *)
(* the edit form.  All projects are in no group and no group filter is set; *)
(* the text fields of the form are left as they are.                        *)

\* App::apply_project_filter with project_filter_groups empty: every project
\* passes, and the stable sort by group keeps the order
apply_project_filter(a) == [a EXCEPT !.filtered_projects = a.projects]

\* show_projects after Storage::load_projects returned the names
show_projects(a, names) ==
    go_to_screen([apply_project_filter([a EXCEPT !.projects = names])
                    EXCEPT !.project_selected = 0], "ProjectList")

\* iter().position(|p| p.name == name), 0-based; the name is in the list
position(names, name) ==
    (CHOOSE i \in 1..Len(names) :
        names[i] = name /\ \A j \in 1..(i - 1) : names[j] # name) - 1

\* show_project_details after Storage::load_all_logs returned the entries of files
show_project_details(a, files) ==
    IF a.project_selected < Len(a.filtered_projects)
       /\ Contains(a.projects, a.filtered_projects[a.project_selected + 1])
    THEN LET project == a.filtered_projects[a.project_selected + 1]
             logs == load_all_logs(files)
         IN  go_to_screen(
                 [a EXCEPT !.logs = logs,
                           !.project_details_logs =
                               SelectSeq(logs, LAMBDA log : Contains(log.projects, project)),
                           !.project_details_log_selected = 0,
                           !.project_idx = position(a.projects, project)],
                 "ProjectDetails")
    ELSE a

view_project_details_log(a) ==
    IF a.project_details_log_selected < Len(a.project_details_logs)
    THEN go_to_screen([a EXCEPT !.view_log_path =
                            a.project_details_logs[a.project_details_log_selected + 1].file_path],
                      "ViewLog")
    ELSE a

start_edit_project_from_details(a) ==
    IF a.screen = "ProjectDetails" /\ a.project_idx < Len(a.projects)
    THEN go_to_screen([a EXCEPT !.project_edit_field = 0], "ProjectEdit")
    ELSE a

\* save_edited_project of an existing project after save_projects and load_projects
\* succeeded; names is what projects.yml holds then
save_edited_project(a, names) ==
    IF a.screen = "ProjectEdit"
    THEN go_back(apply_project_filter(
            [a EXCEPT !.projects = names,
                      !.status_message = IF a.project_idx < Len(a.projects)
                                         THEN "Project saved" ELSE @]))
    ELSE a

handle_project_list_input(a, key, files) ==
    CASE key = "Esc" -> go_to_screen(a, "Menu")
      [] key = "Up" ->
            IF a.project_selected > 0
            THEN [a EXCEPT !.project_selected = @ - 1] ELSE a
      [] key = "Down" ->
            IF a.project_selected < saturating_pred(Len(a.filtered_projects))
            THEN [a EXCEPT !.project_selected = @ + 1] ELSE a
      [] key = "Enter" -> show_project_details(a, files)
      [] OTHER -> a

handle_project_details_input(a, key) ==
    CASE key = "Esc" -> go_back(a)
      [] key = "Up" ->
            IF a.project_details_log_selected > 0
            THEN [a EXCEPT !.project_details_log_selected = @ - 1] ELSE a
      [] key = "Down" ->
            IF a.project_details_log_selected < saturating_pred(Len(a.project_details_logs))
            THEN [a EXCEPT !.project_details_log_selected = @ + 1] ELSE a
      [] key = "Enter" -> view_project_details_log(a)
      [] key = "e" -> start_edit_project_from_details(a)
      [] OTHER -> a

\* handle_project_edit_input without the Ctrl+S branch; Tab cycles the five fields
handle_project_edit_input(a, key) ==
    CASE key = "Esc" -> go_back(a)
      [] key = "Tab" -> [a EXCEPT !.project_edit_field = (@ + 1) % 5]
      [] OTHER -> a

InitNav ==
    /\ app = [AppNew EXCEPT !.projects = ListProjects, !.people = ListPeople]
    /\ run_app = "looping"
    /\ disk = (PathEve :> TextTagged) @@ (PathMorn :> TextAccent)
    /\ zone = 0
    /\ last = Did("new", "none", FALSE)
    /\ toggles = <<>>
    /\ moves = <<>>

\* handle_menu_input, KeyCode::Char('4'): execute_menu_selection(3) drops the error
\* of show_projects (let _ =), which load_projects may return
MenuShowProjects ==
    /\ OnMenu
    /\ \E io_ok \in BOOLEAN :
         Handled("show_projects",
                 IF io_ok THEN show_projects(clear_status(app), ListProjects)
                 ELSE clear_status(app))

OnScreen(s) == run_app = "looping" /\ app.screen = s

ProjectListKey ==
    /\ OnScreen("ProjectList")
    /\ \E key \in {"Esc", "Up", "Down", "Enter"} :
         Handled("key", handle_project_list_input(clear_status(app), key, disk))

ProjectDetailsKey ==
    /\ OnScreen("ProjectDetails")
    /\ \E key \in {"Up", "Down", "Enter", "e"} :
         Handled("key", handle_project_details_input(clear_status(app), key))

\* handle_project_details_input, KeyCode::Esc: app.go_back()
ProjectDetailsEsc ==
    /\ OnScreen("ProjectDetails")
    /\ Handled("go_back", handle_project_details_input(clear_status(app), "Esc"))

ProjectEditKey ==
    /\ OnScreen("ProjectEdit")
    /\ Handled("key", handle_project_edit_input(clear_status(app), "Tab"))

\* handle_project_edit_input, KeyCode::Esc: app.go_back()
ProjectEditEsc ==
    /\ OnScreen("ProjectEdit")
    /\ Handled("go_back", handle_project_edit_input(clear_status(app), "Esc"))

\* Ctrl+S in the form: app.save_edited_project()?; save_projects or load_projects
\* may fail, and the ? then carries the error out of run_app
ProjectEditSave ==
    /\ OnScreen("ProjectEdit")
    /\ \E io_ok \in BOOLEAN :
         /\ app' = (IF io_ok THEN save_edited_project(clear_status(app), app.projects)
                    ELSE clear_status(app))
         /\ run_app' = (IF io_ok THEN run_app ELSE "returned_err")
         /\ last' = Did("save_edited_project", IF io_ok THEN "ok" ELSE "err", io_ok)
         /\ UNCHANGED <<disk, zone, toggles>>
         /\ moves' = <<>>

\* handle_view_log_input, KeyCode::Esc: app.go_back()
ViewLogEsc ==
    /\ OnScreen("ViewLog")
    /\ Handled("go_back", handle_view_log_input(clear_status(app), "Esc"))

NextNav ==
    \/ MenuShowProjects
    \/ ProjectListKey
    \/ ProjectDetailsKey
    \/ ProjectDetailsEsc
    \/ ProjectEditKey
    \/ ProjectEditEsc
    \/ ProjectEditSave
    \/ ViewLogEsc

SpecNav == InitNav /\ [][NextNav]_vars

----------------------------------------------------------------------------
(* Claim about going back, checked under SpecNav *)

\* the screen from which a screen is entered in SpecNav: the project list from the
\* menu, the details from the list, the form and the log view from the details
EnteredFrom(screen) ==
    CASE screen = "ProjectList" -> "Menu"
      [] screen = "ProjectDetails" -> "ProjectList"
      [] screen = "ProjectEdit" -> "ProjectDetails"
      [] screen = "ViewLog" -> "ProjectDetails"

\* C29: go_back returns to the screen from which the current screen was entered,
\* for nested navigation too: after ProjectList -> ProjectDetails -> ProjectEdit (or
\* -> ViewLog) the first go_back returns to ProjectDetails, the next to ProjectList
C29_GoBackReturnsToOrigin ==
    [][last'.op = "go_back" => app'.screen = EnteredFrom(app.screen)]_vars

=============================================================================
